---- MODULE Spec2Model ----
(***************************************************************************)
(* Model of the CustomTable engine of src/lib/custom-table.js (the class   *)
(* that starts at line 745): the dense grid model, the style layers, the   *)
(* merge list, the selection, the structural edits, the style setters,     *)
(* #normalizeModel, and the spreadsheet export / import.                   *)
(*                                                                         *)
(* Representation of JavaScript values                                     *)
(*  - a number is an integer count of 1/Unit parts (N(i) is the integer i),*)
(*    so that the fractional numbers a caller can pass are values too;     *)
(*  - null / undefined in an object slot is Null; an object is Obj(e) with *)
(*    e the sequence of its <<key, value>> properties in insertion order;  *)
(*  - a property value is a string, NullValue standing for null/undefined; *)
(*  - an array is a sequence (position i of the array is element i + 1).   *)
(***************************************************************************)
EXTENDS Integers, Sequences, FiniteSets, TLC

\* ----- bounds of the model -----
Unit == 2
MaxOps == 2
MaxSide == 2

\* ----- program constants -----
MaxProps == 200
DEFAULT_ROWS == 2
DEFAULT_COLS == 2

\* ----- JavaScript values -----
N(i) == i * Unit
IsInteger(x) == x % Unit = 0
\* ToIntegerOrInfinity for the finite numbers of the model: truncation
Trunc(x) == IF x >= 0 THEN x \div Unit ELSE -((-x) \div Unit)
\* ToLength: the length Array.from({ length: x }) gives
ToLength(x) == IF x <= 0 THEN 0 ELSE x \div Unit
\* the loop counters 0, 1, 2, ... that satisfy  i < x
Below(x) == { i \in 0..(MaxSide + MaxOps + 1) : N(i) < x }
Min(a, b) == IF a <= b THEN a ELSE b
Max(a, b) == IF a >= b THEN a ELSE b

Null == [null |-> TRUE]
Obj(e) == [entries |-> e]
NullValue == "<null>"
Truthy(o) == o # Null
Entries(o) == IF o = Null THEN << >> ELSE o.entries
Keys(o) == { Entries(o)[i][1] : i \in 1..Len(Entries(o)) }
Has(o, k) == k \in Keys(o)
Get(o, k) == LET e == Entries(o) IN e[CHOOSE i \in 1..Len(e) : e[i][1] = k][2]
\* o[k] = v : an existing property keeps its place, a new one goes last
PutEntry(e, k, v) ==
    IF \E i \in 1..Len(e) : e[i][1] = k
    THEN [i \in 1..Len(e) |-> IF e[i][1] = k THEN <<k, v>> ELSE e[i]]
    ELSE Append(e, <<k, v>>)
\* delete o[k]
DeleteEntry(e, k) == SelectSeq(e, LAMBDA p : p[1] # k)
\* two objects with the same properties, whatever their order
SameProps(a, b) ==
    /\ (a = Null) = (b = Null)
    /\ Keys(a) = Keys(b)
    /\ \A k \in Keys(a) : Get(a, k) = Get(b, k)

\* String.prototype.trim on the keys the model passes in
Trim(k) ==
    CASE k = " color " -> "color"
      [] k = "  " -> ""
      [] OTHER -> k

\* ----- #sanitizeStyle -----
\* Kept(e, i): entry i of Object.entries(style) passes  v == null -> continue  and
\* !key -> continue, so  out[key] = val; count++  runs for it if the loop is still going
Kept(e, i) == e[i][2] # NullValue /\ Trim(e[i][1]) # ""

\* the entries the loop assigns: it leaves (break) at the first entry it meets with
\* count > MaxProps, count being the number of assignments made so far
Assigned(e) ==
    LET kept == SelectSeq([i \in 1..Len(e) |-> i], LAMBDA i : Kept(e, i))
    IN SubSeq(kept, 1, Min(Len(kept), MaxProps + 1))

sanitizeStyle(style) ==
    IF style = Null THEN Null
    ELSE LET e == style.entries
             ran == Assigned(e)
             keyAt == [n \in 1..Len(ran) |-> Trim(e[ran[n]][1])]
             distinct == Cardinality({ keyAt[n] : n \in 1..Len(ran) }) = Len(ran)
             \* a key takes its place in out at its first assignment, its value from its last
             first == SelectSeq([n \in 1..Len(ran) |-> n],
                                LAMBDA n : \A n2 \in 1..(n - 1) : keyAt[n2] # keyAt[n])
             lastOf(n) == CHOOSE n2 \in n..Len(ran) :
                              /\ keyAt[n2] = keyAt[n]
                              /\ \A n3 \in (n2 + 1)..Len(ran) : keyAt[n3] # keyAt[n]
             out == IF distinct
                    THEN [n \in 1..Len(ran) |-> <<keyAt[n], e[ran[n]][2]>>]
                    ELSE [j \in 1..Len(first) |-> <<keyAt[first[j]], e[ran[lastOf(first[j])]][2]>>]
         IN IF Len(out) > 0 THEN Obj(out) ELSE Null

\* ----- cell style keys: C{col+1}R{row+1} -----
\* the decimal text of a number (`${x}`)
NumStr(x) ==
    IF IsInteger(x) THEN ToString(x \div Unit)
    ELSE ToString(x \div Unit) \o "+" \o ToString(x % Unit) \o "/" \o ToString(Unit)

cellKey(r, c) == "C" \o NumStr(c + Unit) \o "R" \o NumStr(r + Unit)

\* the numbers \d+ can read in the keys of the model
KeyNums == 0..(MaxSide + MaxOps + 2)
\* the texts /^c\s*(\d+)\s*r\s*(\d+)$/i accepts, by the two numbers they hold
KeyTexts(c1, r1) ==
    { cc \o ToString(c1) \o rr \o ToString(r1) : cc \in {"C", "c"}, rr \in {"R", "r"} }
KeyTable ==
    LET all == UNION { KeyTexts(p[1], p[2]) : p \in KeyNums \X KeyNums }
    IN [k \in all |-> CHOOSE p \in KeyNums \X KeyNums : k \in KeyTexts(p[1], p[2])]

parseCellKey(k) ==
    IF k \in DOMAIN KeyTable
    THEN [c |-> N(KeyTable[k][1]) - Unit, r |-> N(KeyTable[k][2]) - Unit]
    ELSE Null

\* ----- the state -----
VARIABLES
    model,              \* this.model: rows, cols, data, columnStyles, rowStyles, cellStyles, mergedCells
    defaultCellStyle,   \* this._defaultCellStyle
    selection,          \* this._selection
    rendered,           \* whether the last #render() built the table in the container
    last,               \* the last call: its name, its arguments, whether it threw
    nops                \* number of calls made

vars == <<model, defaultCellStyle, selection, rendered, last, nops>>

EmptyMap == [k \in {} |-> Null]
Repeat(n, v) == [i \in 1..n |-> v]

createEmptyModel(rows, cols) ==
    [ rows |-> rows,
      cols |-> cols,
      data |-> Repeat(ToLength(rows), Repeat(ToLength(cols), "")),
      columnStyles |-> Repeat(ToLength(cols), Null),
      rowStyles |-> Repeat(ToLength(rows), Null),
      cellStyles |-> EmptyMap,
      mergedCells |-> << >> ]

\* a[i] for a loop counter or index i (a number of whole units), undefined read as Null
At(a, i) == IF i >= 0 /\ i < Len(a) THEN a[i + 1] ELSE Null
\* a.splice(index, 1) for index >= 0
Splice1(a, index) ==
    LET i == Trunc(index)
    IN IF i >= Len(a) THEN a
       ELSE [j \in 1..(Len(a) - 1) |-> IF j <= i THEN a[j] ELSE a[j + 1]]
\* a[i] = v on an array: the array grows to hold position i, its holes read as Null
SetAt(a, i, v) ==
    [j \in 1..Max(Len(a), i + 1) |-> IF j = i + 1 THEN v ELSE IF j <= Len(a) THEN a[j] ELSE Null]

\* ----- merge helpers -----
posKey(r, c) == <<r, c>>

\* the numbers r = lo, lo + 1, ... with r <= hi
Steps(lo, hi) == { x \in lo..hi : (x - lo) % Unit = 0 }

buildMergeMaps(mergedCells) ==
    LET spans(rng) ==
            LET sr == Min(rng.start.r, rng.end.r)
                er == Max(rng.start.r, rng.end.r)
                sc == Min(rng.start.c, rng.end.c)
                ec == Max(rng.start.c, rng.end.c)
            IN [sr |-> sr, er |-> er, sc |-> sc, ec |-> ec,
                rowSpan |-> er - sr + Unit, colSpan |-> ec - sc + Unit]
        kept == { i \in 1..Len(mergedCells) :
                    ~(spans(mergedCells[i]).rowSpan <= Unit /\ spans(mergedCells[i]).colSpan <= Unit) }
        tops == { posKey(spans(mergedCells[i]).sr, spans(mergedCells[i]).sc) : i \in kept }
    IN [ topLeftMap |->
            [k \in tops |->
                LET i == CHOOSE j \in kept :
                            /\ posKey(spans(mergedCells[j]).sr, spans(mergedCells[j]).sc) = k
                            /\ \A j2 \in kept :
                                 posKey(spans(mergedCells[j2]).sr, spans(mergedCells[j2]).sc) = k
                                    => j2 <= j
                IN [rowSpan |-> spans(mergedCells[i]).rowSpan, colSpan |-> spans(mergedCells[i]).colSpan]],
         coveredSet |->
            UNION { { posKey(r, c) : r \in Steps(spans(mergedCells[i]).sr, spans(mergedCells[i]).er),
                                     c \in Steps(spans(mergedCells[i]).sc, spans(mergedCells[i]).ec) }
                        \ { posKey(spans(mergedCells[i]).sr, spans(mergedCells[i]).sc) } : i \in kept } ]

\* a re-indexing that shrinks a range the removed row cuts through rather than dropping it
shrinkMergesAfterRemoveRow(merges, removedRow) ==
    LET cut(m) == removedRow >= m.start.r /\ removedRow <= m.end.r
        shift(m) == IF removedRow < m.start.r THEN -Unit ELSE 0
        move(m) == [start |-> [r |-> m.start.r + shift(m), c |-> m.start.c],
                    end |-> [r |-> m.end.r + (IF cut(m) THEN -Unit ELSE shift(m)), c |-> m.end.c]]
        moved == [i \in 1..Len(merges) |-> move(merges[i])]
        idx == SelectSeq([i \in 1..Len(merges) |-> i],
                         LAMBDA i : moved[i].start.r <= moved[i].end.r)
    IN [j \in 1..Len(idx) |-> moved[idx[j]]]

reindexMergesAfterRemoveRow(merges, removedRow) ==
    LET keep(m) == ~(removedRow >= m.start.r /\ removedRow <= m.end.r)
        shift(m) == IF removedRow < m.start.r THEN -Unit ELSE 0
        move(m) == [start |-> [r |-> m.start.r + shift(m), c |-> m.start.c],
                    end |-> [r |-> m.end.r + shift(m), c |-> m.end.c]]
        moved == [i \in 1..Len(merges) |-> move(merges[i])]
        idx == SelectSeq([i \in 1..Len(merges) |-> i],
                         LAMBDA i : keep(merges[i]) /\ moved[i].start.r <= moved[i].end.r)
    IN [j \in 1..Len(idx) |-> moved[idx[j]]]

reindexMergesAfterRemoveCol(merges, removedCol) ==
    LET keep(m) == ~(removedCol >= m.start.c /\ removedCol <= m.end.c)
        shift(m) == IF removedCol < m.start.c THEN -Unit ELSE 0
        move(m) == [start |-> [r |-> m.start.r, c |-> m.start.c + shift(m)],
                    end |-> [r |-> m.end.r, c |-> m.end.c + shift(m)]]
        moved == [i \in 1..Len(merges) |-> move(merges[i])]
        idx == SelectSeq([i \in 1..Len(merges) |-> i],
                         LAMBDA i : keep(merges[i]) /\ moved[i].start.c <= moved[i].end.c)
    IN [j \in 1..Len(idx) |-> moved[idx[j]]]

\* ----- re-keying of the cell styles -----
\* (the keys of the map are distinct cells, so no two entries land on one key)
\* a re-keying that drops the entries of the removed row and leaves the others at their keys
dropCellStylesOfRow(map, removedRow) ==
    LET src == { k \in DOMAIN map : parseCellKey(k) # Null /\ parseCellKey(k).r # removedRow }
    IN [k \in src |-> map[k]]

reindexCellStylesAfterRemoveRow(map, removedRow) ==
    LET src == { k \in DOMAIN map : parseCellKey(k) # Null /\ parseCellKey(k).r # removedRow }
        newKey(k) ==
            LET p == parseCellKey(k)
            IN cellKey(IF p.r > removedRow THEN p.r - Unit ELSE p.r, p.c)
    IN [nk \in { newKey(k) : k \in src } |-> map[CHOOSE k \in src : newKey(k) = nk]]

reindexCellStylesAfterRemoveCol(map, removedCol) ==
    LET src == { k \in DOMAIN map : parseCellKey(k) # Null /\ parseCellKey(k).c # removedCol }
        newKey(k) ==
            LET p == parseCellKey(k)
            IN cellKey(p.r, IF p.c > removedCol THEN p.c - Unit ELSE p.c)
    IN [nk \in { newKey(k) : k \in src } |-> map[CHOOSE k \in src : newKey(k) = nk]]

\* ----- A1 addresses -----
Letters == << "A", "B", "C", "D", "E", "F", "G", "H", "I", "J", "K", "L", "M",
              "N", "O", "P", "Q", "R", "S", "T", "U", "V", "W", "X", "Y", "Z" >>
\* charCodeAt(0) - 64 of an upper-case letter
LetterRank(ch) == CHOOSE i \in 1..26 : Letters[i] = ch

\* a label is kept as the sequence of its letters; LabelText joins them
RECURSIVE LabelText(_)
LabelText(l) == IF Len(l) = 0 THEN "" ELSE Head(l) \o LabelText(Tail(l))

\* String.fromCharCode(65 + rem) for the remainders n % 26 can give ('@' is code 64)
CodeChar(rem) == IF rem >= 0 THEN Letters[rem + 1] ELSE "@"
\* n % 26 in JavaScript: the sign of the result is the sign of n
JsRem(n) == IF n >= 0 THEN n % 26 ELSE -((-n) % 26)

\* #colIndexToLabel: the do-while loop, n counted in whole numbers
\* (fromCharCode drops the fraction of its argument, Math.floor that of n / 26)
RECURSIVE LabelLoop(_, _)
LabelLoop(n, label) ==
    LET rem == JsRem(n)
        next == <<CodeChar(rem)>> \o label
        n2 == (n \div 26) - 1
    IN IF n2 >= 0 THEN LabelLoop(n2, next) ELSE next

\* a labelling in plain base 26, with A as the digit zero
RECURSIVE PlainLoop(_, _)
PlainLoop(n, label) ==
    IF n \div 26 > 0 THEN PlainLoop(n \div 26, <<CodeChar(n % 26)>> \o label)
    ELSE <<CodeChar(n % 26)>> \o label
colIndexToPlainLabel(index) == PlainLoop(index \div Unit, << >>)

colIndexToLabel(index) == LabelLoop(index \div Unit, << >>)

\* #colLabelToIndex on the letters of a label
RECURSIVE LabelValue(_, _)
LabelValue(l, n) == IF Len(l) = 0 THEN n ELSE LabelValue(Tail(l), n * 26 + LetterRank(Head(l)))

colLabelToIndex(l) == IF Len(l) = 0 THEN 0 ELSE N(LabelValue(l, 0) - 1)

\* the labels and row numbers /^([A-Za-z]+)(\d+)$/ can read in the addresses of the model
A1Labels == { <<Letters[i]>> : i \in 1..(MaxSide + MaxOps + 3) }
A1Rows == 0..(MaxSide + MaxOps + 3)
A1Table ==
    LET pairs == A1Labels \X A1Rows
        text(p) == LabelText(p[1]) \o ToString(p[2])
    IN [t \in { text(p) : p \in pairs } |-> CHOOSE p \in pairs : text(p) = t]

\* #parseA1
parseA1(a1) ==
    IF a1 \in DOMAIN A1Table
    THEN [r |-> N(A1Table[a1][2]) - Unit, c |-> colLabelToIndex(A1Table[a1][1])]
    ELSE Null

\* a range text is kept as the sequence of its parts, rng.split(':')
\* #parseA1Range
parseA1Range(parts) ==
    IF Len(parts) = 0 THEN Null
    ELSE IF Len(parts) = 1
    THEN (IF parseA1(parts[1]) # Null
          THEN [start |-> parseA1(parts[1]), end |-> parseA1(parts[1])] ELSE Null)
    ELSE IF parseA1(parts[1]) = Null \/ parseA1(parts[2]) = Null THEN Null
    ELSE [start |-> parseA1(parts[1]), end |-> parseA1(parts[2])]

\* #rangeToA1, as the parts around the ':'
rangeToA1(start, end) ==
    LET sr == Min(start.r, end.r)
        er == Max(start.r, end.r)
        sc == Min(start.c, end.c)
        ec == Max(start.c, end.c)
    IN << LabelText(colIndexToLabel(sc)) \o NumStr(sr + Unit),
          LabelText(colIndexToLabel(ec)) \o NumStr(er + Unit) >>

\* ----- #sanitizeMerges -----
\* an entry of the list is [kind |-> "a1", parts |-> ...] (a string),
\* [kind |-> "range", start |-> ..., end |-> ...] (an object with finite corners)
\* or [kind |-> "junk"] (anything else); the list is Arr(...), and Null is "not an array"
sanitizeMerges(given, maxRows, maxCols) ==
    IF given = Null THEN << >>
    ELSE
      LET merges == given.array
          rngOf(m) ==
              IF m.kind = "a1" THEN parseA1Range(m.parts)
              ELSE IF m.kind = "range" THEN [start |-> m.start, end |-> m.end]
              ELSE Null
          norm(rng) ==
              LET sr == Min(Max(0, Min(rng.start.r, rng.end.r)), maxRows - Unit)
                  er == Min(Max(0, Max(rng.start.r, rng.end.r)), maxRows - Unit)
                  sc == Min(Max(0, Min(rng.start.c, rng.end.c)), maxCols - Unit)
                  ec == Min(Max(0, Max(rng.start.c, rng.end.c)), maxCols - Unit)
              IN [start |-> [r |-> sr, c |-> sc], end |-> [r |-> er, c |-> ec]]
          ok(m) ==
              /\ rngOf(m) # Null
              /\ LET n == norm(rngOf(m))
                 IN /\ ~(n.end.r < n.start.r \/ n.end.c < n.start.c)
                    /\ ~(n.start.r = n.end.r /\ n.start.c = n.end.c)
          idx == SelectSeq([i \in 1..Len(merges) |-> i], LAMBDA i : ok(merges[i]))
      IN [j \in 1..Len(idx) |-> norm(rngOf(merges[idx[j]]))]

\* ----- maps (objects used as dictionaries) -----
MapPut(map, k, v) == [x \in (DOMAIN map) \cup {k} |-> IF x = k THEN v ELSE map[x]]
MapDelete(map, k) == [x \in (DOMAIN map) \ {k} |-> map[x]]
MapGet(map, k) == IF k \in DOMAIN map THEN map[k] ELSE Null

\* ----- the style API (r, c, index are whole numbers) -----
setCellStyle(m, r, c, styleObj) ==
    IF r < 0 \/ r >= m.rows THEN m
    ELSE IF c < 0 \/ c >= m.cols THEN m
    ELSE LET key == cellKey(r, c)
             sanitized == sanitizeStyle(styleObj)
         IN IF Truthy(sanitized)
            THEN [m EXCEPT !.cellStyles = MapPut(@, key, sanitized)]
            ELSE [m EXCEPT !.cellStyles = MapDelete(@, key)]

getCellStyle(m, r, c) ==
    IF r < 0 \/ r >= m.rows THEN Null
    ELSE IF c < 0 \/ c >= m.cols THEN Null
    ELSE MapGet(m.cellStyles, cellKey(r, c))

setColumnStyle(m, index, styleObj) ==
    IF index < 0 \/ index >= m.cols THEN m
    ELSE [m EXCEPT !.columnStyles = SetAt(@, Trunc(index), sanitizeStyle(styleObj))]

getColumnStyle(m, index) ==
    IF index < 0 \/ index >= m.cols THEN Null
    ELSE At(m.columnStyles, Trunc(index))

\* a row setter that writes the style to every cell of the row as well
setRowStyleOfCells(m, index, styleObj) ==
    IF index < 0 \/ index >= m.rows THEN m
    ELSE [m EXCEPT !.rowStyles = SetAt(@, Trunc(index), sanitizeStyle(styleObj)),
                   !.cellStyles = [k \in (DOMAIN @) \cup { cellKey(index, N(c)) : c \in Below(m.cols) } |->
                                      IF k \in { cellKey(index, N(c)) : c \in Below(m.cols) }
                                      THEN sanitizeStyle(styleObj) ELSE @[k]]]

setRowStyle(m, index, styleObj) ==
    IF index < 0 \/ index >= m.rows THEN m
    ELSE [m EXCEPT !.rowStyles = SetAt(@, Trunc(index), sanitizeStyle(styleObj))]

getRowStyle(m, index) ==
    IF index < 0 \/ index >= m.rows THEN Null
    ELSE At(m.rowStyles, Trunc(index))

\* out[k] = v for every property of the layer whose value is neither null nor '':
\* a property out has keeps its place and takes the value, a new one goes last
Layer(out, e) ==
    LET live == SelectSeq(e, LAMBDA p : ~(p[2] = NullValue \/ p[2] = ""))
        val(k) == live[CHOOSE j \in 1..Len(live) : live[j][1] = k][2]
        has(k) == \E j \in 1..Len(live) : live[j][1] = k
    IN [i \in 1..Len(out) |-> IF has(out[i][1]) THEN <<out[i][1], val(out[i][1])>> ELSE out[i]]
       \o SelectSeq(live, LAMBDA p : \A i \in 1..Len(out) : out[i][1] # p[1])

getEffectiveCellStyle(m, dflt, r, c) ==
    IF r < 0 \/ r >= m.rows THEN Null
    ELSE IF c < 0 \/ c >= m.cols THEN Null
    ELSE LET l1 == Layer(<< >>, Entries(dflt))
             l2 == Layer(l1, Entries(At(m.columnStyles, Trunc(c))))
             l3 == Layer(l2, Entries(At(m.rowStyles, Trunc(r))))
             l4 == Layer(l3, Entries(MapGet(m.cellStyles, cellKey(r, c))))
         IN sanitizeStyle(Obj(l4))

\* ----- #normalizeModel -----
\* A candidate model m is Null or a record whose fields are Null when absent:
\*   rows, cols      Null, Num(x) or NaN (a value Number() cannot read)
\*   data            Arr of a sequence of rows, each a sequence of strings / NullValue
\*   columnStyles, rowStyles   Arr of a sequence of styles (Null or Obj)
\*   cellStyles      Arr of the entries, in order: [key, style], style being v.style
\*                   for a wrapped entry { style: ... } and v itself otherwise;
\*                   JsNull when the field is given as null
\*   mergedCells     a list as #sanitizeMerges takes
Num(x) == [num |-> x]
NaN == [nan |-> TRUE]
Arr(a) == [array |-> a]
IsFinite(v) == v # NaN
Field(m, f) == IF m = Null THEN Null ELSE m[f]
\* a cellStyles given as null: typeof null is 'object', and Object.entries(null) fails
JsNull == [jsnull |-> TRUE]
NormalizeThrows(m) == m # Null /\ m.cellStyles = JsNull

RECURSIVE NormalizeCellStyles(_, _, _, _, _)
NormalizeCellStyles(e, i, safeRows, safeCols, out) ==
    IF i > Len(e) THEN out
    ELSE LET parsed == parseCellKey(e[i].key)
         IN IF parsed = Null THEN NormalizeCellStyles(e, i + 1, safeRows, safeCols, out)
            ELSE IF parsed.r < safeRows /\ parsed.c < safeCols /\ Truthy(sanitizeStyle(e[i].style))
            THEN NormalizeCellStyles(e, i + 1, safeRows, safeCols,
                     MapPut(out, cellKey(parsed.r, parsed.c), sanitizeStyle(e[i].style)))
            ELSE NormalizeCellStyles(e, i + 1, safeRows, safeCols, out)

normalizeModel(m) ==
    LET hasData == Field(m, "data") # Null
        srcData == IF hasData THEN m.data.array ELSE << >>
        rowsGiven == IF Field(m, "rows") # Null THEN m.rows
                     ELSE IF hasData THEN Num(N(Len(srcData)))
                     ELSE Num(N(DEFAULT_ROWS))
        colsGiven == IF Field(m, "cols") # Null THEN m.cols
                     ELSE IF hasData /\ Len(srcData) > 0 THEN Num(N(Len(srcData[1])))
                     ELSE Num(N(DEFAULT_COLS))
        safeRows == IF IsFinite(rowsGiven) THEN Max(0, rowsGiven.num) ELSE N(DEFAULT_ROWS)
        safeCols == IF IsFinite(colsGiven) THEN Max(0, colsGiven.num) ELSE N(DEFAULT_COLS)
        srcRow(r) == IF r <= Len(srcData) THEN srcData[r] ELSE << >>
        text(v) == IF v = NullValue THEN "" ELSE v
        data == [r \in 1..ToLength(safeRows) |->
                    [c \in 1..ToLength(safeCols) |->
                        IF c <= Len(srcRow(r)) THEN text(srcRow(r)[c]) ELSE ""]]
        srcStyles == IF Field(m, "columnStyles") # Null THEN m.columnStyles.array ELSE << >>
        srcRowStyles == IF Field(m, "rowStyles") # Null THEN m.rowStyles.array ELSE << >>
        srcCell == IF Field(m, "cellStyles") # Null THEN m.cellStyles.array ELSE << >>
    IN [ rows |-> safeRows,
         cols |-> safeCols,
         data |-> data,
         columnStyles |-> [c \in 1..ToLength(safeCols) |-> sanitizeStyle(At(srcStyles, c - 1))],
         rowStyles |-> [r \in 1..ToLength(safeRows) |-> sanitizeStyle(At(srcRowStyles, r - 1))],
         cellStyles |-> NormalizeCellStyles(srcCell, 1, safeRows, safeCols, EmptyMap),
         mergedCells |-> sanitizeMerges(Field(m, "mergedCells"), safeRows, safeCols) ]

\* ----- #render -----
\* The table is rebuilt from the model; the one statement that can fail is the read
\* this.model.data[r][c] (line 1266) of a cell no merge covers in a row data does not hold.
render(m) ==
    LET covered == buildMergeMaps(m.mergedCells).coveredSet
    IN ~(\E r \in Below(m.rows), c \in Below(m.cols) :
            r >= Len(m.data) /\ posKey(N(r), N(c)) \notin covered)

\* the cells the rendered table has a <td> for
Cells(m) ==
    LET covered == buildMergeMaps(m.mergedCells).coveredSet
    IN { rc \in Below(m.rows) \X Below(m.cols) : posKey(N(rc[1]), N(rc[2])) \notin covered }

\* ----- #applyStyleToSelection -----
\* for (const [k, v] of Object.entries(patch)) { if (v == null || v === '') delete next[k]; else next[k] = v; }
RECURSIVE ApplyPatch(_, _, _)
ApplyPatch(next, patch, i) ==
    IF i > Len(patch) THEN next
    ELSE IF patch[i][2] = NullValue \/ patch[i][2] = ""
    THEN ApplyPatch(DeleteEntry(next, patch[i][1]), patch, i + 1)
    ELSE ApplyPatch(PutEntry(next, patch[i][1], patch[i][2]), patch, i + 1)

RECURSIVE PatchCells(_, _, _)
PatchCells(map, keys, patch) ==
    IF Len(keys) = 0 THEN map
    ELSE LET key == Head(keys)
             nextCell == ApplyPatch(Entries(MapGet(map, key)), patch, 1)
             sanitized == sanitizeStyle(Obj(nextCell))
         IN PatchCells(IF Truthy(sanitized) THEN MapPut(map, key, sanitized) ELSE MapDelete(map, key),
                       Tail(keys), patch)

\* the loop counters below x, in order
Counters(x) == [i \in 1..Cardinality(Below(x)) |-> i - 1]

\* patch is "clear" or the entries of the patch object
applyStyleToSelection(m, sel, clear, patch) ==
    IF sel = Null THEN m
    ELSE IF clear THEN
        (IF sel.type = "cell" THEN setCellStyle(m, sel.r, sel.c, Null)
         ELSE IF sel.type = "col" THEN setColumnStyle(m, sel.c, Null)
         ELSE IF sel.type = "row" THEN setRowStyle(m, sel.r, Null)
         ELSE m)
    ELSE IF sel.type = "cell" THEN
        setCellStyle(m, sel.r, sel.c,
            Obj(ApplyPatch(Entries(getCellStyle(m, sel.r, sel.c)), DeleteEntry(patch, "width"), 1)))
    ELSE IF sel.type = "col" THEN
        LET next == ApplyPatch(Entries(getColumnStyle(m, sel.c)), patch, 1)
            keys == [i \in 1..Len(Counters(m.rows)) |-> cellKey(N(Counters(m.rows)[i]), sel.c)]
            m2 == [m EXCEPT !.cellStyles = PatchCells(@, keys, DeleteEntry(patch, "width"))]
        IN setColumnStyle(m2, sel.c, Obj(next))
    ELSE IF sel.type = "row" THEN
        LET rowPatch == DeleteEntry(patch, "width")
            next == ApplyPatch(Entries(getRowStyle(m, sel.r)), rowPatch, 1)
            keys == [i \in 1..Len(Counters(m.cols)) |-> cellKey(sel.r, N(Counters(m.cols)[i]))]
            m2 == [m EXCEPT !.cellStyles = PatchCells(@, keys, rowPatch)]
        IN setRowStyle(m2, sel.r, Obj(next))
    ELSE m

\* ----- structural edits on a model -----
addRow(m) ==
    [m EXCEPT !.data = Append(@, Repeat(ToLength(m.cols), "")), !.rows = @ + Unit]

\* data[r].push('') / data[r].splice(index, 1) fail on a row data does not hold
RowLoopThrows(m) == \E r \in Below(m.rows) : r >= Len(m.data)

addColumn(m) ==
    LET pushed == [m EXCEPT !.data = [r \in 1..Len(@) |-> Append(@[r], "")]]
    IN IF RowLoopThrows(m) THEN pushed
       ELSE [pushed EXCEPT !.cols = @ + Unit, !.columnStyles = Append(@, Null)]

removeRow(m, index) ==
    IF m.rows <= N(1) THEN m
    ELSE IF index < 0 \/ index >= m.rows THEN m
    ELSE [m EXCEPT !.data = Splice1(@, index),
                   !.rows = @ - Unit,
                   !.rowStyles = Splice1(@, index),
                   !.cellStyles = reindexCellStylesAfterRemoveRow(@, index),
                   !.mergedCells = reindexMergesAfterRemoveRow(@, index)]

removeColumn(m, index) ==
    IF m.cols <= N(1) THEN m
    ELSE IF index < 0 \/ index >= m.cols THEN m
    ELSE LET cut == [m EXCEPT !.data = [r \in 1..Len(@) |-> Splice1(@[r], index)]]
         IN IF RowLoopThrows(m) THEN cut
            ELSE [cut EXCEPT !.cols = @ - Unit,
                             !.columnStyles = Splice1(@, index),
                             !.cellStyles = reindexCellStylesAfterRemoveCol(@, index),
                             !.mergedCells = reindexMergesAfterRemoveCol(@, index)]

\* ----- spreadsheet payloads -----
\* A value of a spreadsheet style record is a string, a boolean or a number;
\* Undefined is what reading a key the record does not have gives.
SStr(s) == [s |-> s]
SBool(b) == [b |-> b]
SNum(x) == [n |-> x]
Undefined == [undefined |-> TRUE]
SGet(style, k) == IF style # Null /\ Has(style, k) THEN Get(style, k) ELSE Undefined
\* a CSS style record holds strings
CssGet(style, k) == IF style # Null /\ Has(style, k) THEN Get(style, k) ELSE NullValue
CssTruthy(v) == v # NullValue /\ v # ""

\* the whole numbers the texts of the model spell
TextNums == { 12, 14, 21, 30, 64, 100, 120, 160, 400, 700 }
NumTable == [t \in { ToString(n) : n \in TextNums } |-> CHOOSE n \in TextNums : ToString(n) = t]

\* the truth value, String(v) and Number(v) of a value
STruthy(v) ==
    CASE v = Undefined -> FALSE
      [] "s" \in DOMAIN v -> v.s # ""
      [] "b" \in DOMAIN v -> v.b
      [] "n" \in DOMAIN v -> v.n # 0
SString(v) ==
    CASE v = Undefined -> "undefined"
      [] "s" \in DOMAIN v -> v.s
      [] "b" \in DOMAIN v -> IF v.b THEN "true" ELSE "false"
      [] "n" \in DOMAIN v -> NumStr(v.n)
TextNumber(t) == IF t = "" THEN Num(0) ELSE IF t \in DOMAIN NumTable THEN Num(N(NumTable[t])) ELSE NaN
SNumber(v) ==
    CASE v = Undefined -> NaN
      [] "s" \in DOMAIN v -> TextNumber(v.s)
      [] "b" \in DOMAIN v -> IF v.b THEN Num(N(1)) ELSE Num(0)
      [] "n" \in DOMAIN v -> Num(v.n)

\* String.prototype.toLowerCase on the texts of the model
Lower(t) ==
    CASE t = "Center" -> "center"
      [] t = "Middle" -> "middle"
      [] t = "Bold" -> "bold"
      [] t = "Italic" -> "italic"
      [] t = "NoWrap" -> "nowrap"
      [] t = "TOP" -> "top"
      [] OTHER -> t

\* Math.round, to a whole number
Round(x) == (2 * x + Unit) \div (2 * Unit)
PxText(x) == ToString(Round(x)) \o "px"

\* #pxToNumber on a CSS value: /^(-?\d+(?:\.\d+)?)\s*px?$/i or a bare number
PxTexts(n) == { ToString(n) \o u : u \in { "px", "p", " px", "PX", "" } }
pxToNumber(val) ==
    IF val = NullValue \/ val = "" THEN Null
    ELSE IF \E n \in TextNums : val \in PxTexts(n)
    THEN Num(N(CHOOSE n \in TextNums : val \in PxTexts(n)))
    ELSE Null

\* if (cond) out[k] = v, as the entries it adds
Opt(cond, k, v) == IF cond THEN << <<k, v>> >> ELSE << >>

\* #mapToSpreadsheetStyle
mapToSpreadsheetStyle(style) ==
    IF style = Null THEN Null
    ELSE LET g(k) == CssGet(style, k)
             vv == IF Lower(g("verticalAlign")) = "middle" THEN "center" ELSE Lower(g("verticalAlign"))
             ws == Lower(g("whiteSpace"))
             fsz == pxToNumber(g("fontSize"))
             bg == IF CssTruthy(g("background")) THEN g("background") ELSE g("backgroundColor")
             fw == Lower(g("fontWeight"))
             td == Lower(g("textDecoration"))
             out == Opt(CssTruthy(g("textAlign")), "textAlign", SStr(g("textAlign")))
                 \o Opt(CssTruthy(g("verticalAlign")), "verticalAlign", SStr(vv))
                 \o Opt(CssTruthy(g("whiteSpace")) /\ ws \in { "normal", "nowrap" }, "wrap", SBool(ws = "normal"))
                 \o Opt(CssTruthy(g("fontFamily")), "fontFamily", SStr(g("fontFamily")))
                 \o Opt(g("fontSize") # NullValue /\ g("fontSize") # "", "fontSize",
                        IF fsz # Null THEN SNum(fsz.num) ELSE SStr(g("fontSize")))
                 \o Opt(CssTruthy(g("color")), "color", SStr(g("color")))
                 \o Opt(CssTruthy(bg), "background", SStr(bg))
                 \o Opt(CssTruthy(g("fontWeight"))
                          /\ (fw = "bold" \/ (TextNumber(fw) # NaN /\ TextNumber(fw).num >= N(600))),
                        "bold", SBool(TRUE))
                 \o Opt(CssTruthy(g("fontStyle")) /\ Lower(g("fontStyle")) = "italic", "italic", SBool(TRUE))
                 \o Opt(CssTruthy(g("textDecoration")) /\ td \in { "underline", "underline line-through" },
                        "underline", SBool(TRUE))
                 \o Opt(CssTruthy(g("textDecoration")) /\ td \in { "line-through", "underline line-through" },
                        "strike", SBool(TRUE))
         IN IF Len(out) > 0 THEN Obj(out) ELSE Null

\* mapStyle of #fromSpreadsheetJSON
mapStyle(style) ==
    IF style = Null THEN Null
    ELSE LET g(k) == SGet(style, k)
             t(k) == STruthy(g(k))
             va(v) == IF Lower(SString(v)) = "center" THEN "middle" ELSE Lower(SString(v))
             wraps == { g("wrap"), g("wordWrap"), g("wrapText") }
             fsNum == SNumber(g("fontSize"))
             colorOf == IF t("color") THEN g("color") ELSE IF t("fontColor") THEN g("fontColor")
                        ELSE g("foreColor")
             bgOf == IF t("background") THEN g("background") ELSE IF t("bgColor") THEN g("bgColor")
                     ELSE IF t("backColor") THEN g("backColor")
                     ELSE IF t("backgroundColor") THEN g("backgroundColor") ELSE g("fillColor")
             under == g("underline") = SBool(TRUE)
             strike == g("strike") = SBool(TRUE)
             out == Opt(t("textAlign") \/ t("hAlign"), "textAlign",
                        IF t("hAlign") THEN SString(g("hAlign")) ELSE SString(g("textAlign")))
                 \o Opt(t("vAlign") \/ t("verticalAlign"), "verticalAlign",
                        IF t("verticalAlign") THEN va(g("verticalAlign")) ELSE va(g("vAlign")))
                 \o Opt(SBool(TRUE) \in wraps \/ SBool(FALSE) \in wraps, "whiteSpace",
                        IF SBool(FALSE) \in wraps THEN "nowrap" ELSE "normal")
                 \o Opt(t("fontFamily"), "fontFamily", SString(g("fontFamily")))
                 \o Opt(g("fontSize") # Undefined /\ g("fontSize") # SStr(""), "fontSize",
                        IF fsNum # NaN THEN PxText(fsNum.num) ELSE SString(g("fontSize")))
                 \o Opt(STruthy(colorOf), "color", SString(colorOf))
                 \o Opt(STruthy(bgOf), "background", SString(bgOf))
                 \o Opt(t("fontWeight") \/ g("bold") = SBool(TRUE), "fontWeight",
                        IF g("bold") = SBool(TRUE) THEN "bold" ELSE SString(g("fontWeight")))
                 \o Opt(t("fontStyle") \/ g("italic") = SBool(TRUE), "fontStyle",
                        IF g("italic") = SBool(TRUE) THEN "italic" ELSE SString(g("fontStyle")))
                 \o Opt(under \/ strike, "textDecoration",
                        IF under /\ strike THEN "underline line-through"
                        ELSE IF under THEN "underline" ELSE "line-through")
         IN IF Len(out) > 0 THEN Obj(out) ELSE Null

\* ----- toSpreadsheetJSON -----
DEFAULT_COL_WIDTH == 64
DEFAULT_ROW_HEIGHT == 21

\* A payload is [sheets, activeSheet, columnWidth, rowHeight, defaultCellStyle]; a sheet is
\* [name, columns, rows, selection, activeCell, mergedCells, defaultCellStyle], where
\*   columns      Null or Arr of [width |-> Null, Num(x) or NaN]
\*   rows         Null or Arr of [index |-> Num(x) or NaN, height |-> Null, Num(x) or NaN,
\*                                cells |-> Null or Arr of cells]
\*   a cell       [index |-> Num(x) or NaN, value |-> a string or NullValue,
\*                 style |-> the nested style record or Null, inline |-> the style keys the
\*                 cell itself carries, as a record, or Null]
\*   activeCell   a string, "" when absent
\*   selection    the parts of the string around ':', << >> when absent or empty
\*   mergedCells  Null or Arr of such sequences of parts
\* a name or activeSheet is a string, "" when absent.

\* the read  this.model.data[r][c]  fails on a row data does not hold
ExportThrows(m) == \E r \in Below(m.rows) : r >= Len(m.data) /\ Below(m.cols) # {}

\* the overrides of cell (r, c) against the default: column, row, cell in turn
Overrides(m, dflt, r, c) ==
    LET differs(e) == SelectSeq(e, LAMBDA p : ~(Has(dflt, p[1]) /\ Get(dflt, p[1]) = p[2]))
        l1 == Layer(<< >>, differs(Entries(At(m.columnStyles, c))))
        l2 == Layer(l1, differs(Entries(At(m.rowStyles, r))))
    IN Layer(l2, differs(Entries(MapGet(m.cellStyles, cellKey(N(r), N(c))))))

\* the selection as an address
ActiveCell(sel) ==
    IF sel = Null THEN "A1"
    ELSE IF sel.type = "cell" THEN LabelText(colIndexToLabel(sel.c)) \o NumStr(sel.r + Unit)
    ELSE IF sel.type = "col" THEN LabelText(colIndexToLabel(sel.c)) \o "1"
    ELSE IF sel.type = "row" THEN "A" \o NumStr(sel.r + Unit)
    ELSE "A1"

\* the text and the exported style of cell (r, c)
ExportText(m, r, c) ==
    IF c < Len(m.data[r + 1]) /\ m.data[r + 1][c + 1] # NullValue THEN m.data[r + 1][c + 1] ELSE ""
ExportStyle(m, dflt, r, c) == mapToSpreadsheetStyle(Obj(Overrides(m, dflt, r, c)))

\* the cell descriptor of a cell with this text and this exported style
ExportCell(c, text, styled) ==
    [ index |-> Num(N(c)),
      value |-> IF text # "" THEN text ELSE NullValue,
      style |-> styled,
      inline |-> Null ]

\* the cells of row r that have content or a style
ExportCells(m, dflt, r) ==
    LET all == [i \in 1..Len(Counters(m.cols)) |->
                   ExportCell(Counters(m.cols)[i], ExportText(m, r, Counters(m.cols)[i]),
                              ExportStyle(m, dflt, r, Counters(m.cols)[i]))]
    IN SelectSeq(all, LAMBDA cell : cell.value # NullValue \/ cell.style # Null)

\* the row descriptor of row r, Null when the row has no cell and no height
ExportRow(r, height, cells) ==
    IF Len(cells) > 0 \/ height # Null
    THEN [ index |-> Num(N(r)), height |-> height, cells |-> Arr(cells) ]
    ELSE Null

ExportRows(m, dflt) ==
    LET all == [i \in 1..Len(Counters(m.rows)) |->
                   ExportRow(Counters(m.rows)[i],
                             pxToNumber(CssGet(At(m.rowStyles, Counters(m.rows)[i]), "height")),
                             ExportCells(m, dflt, Counters(m.rows)[i]))]
    IN SelectSeq(all, LAMBDA row : row # Null)

ExportSheet(m, dflt, activeCell) ==
    [ name |-> "Sheet1",
      columns |-> Arr([c \in 1..ToLength(m.cols) |->
                          [width |-> pxToNumber(CssGet(At(m.columnStyles, c - 1), "width"))]]),
      rows |-> Arr(ExportRows(m, dflt)),
      selection |-> << activeCell >>,
      activeCell |-> activeCell,
      mergedCells |-> Arr([i \in 1..Len(m.mergedCells) |->
                              rangeToA1(m.mergedCells[i].start, m.mergedCells[i].end)]),
      defaultCellStyle |-> mapToSpreadsheetStyle(dflt) ]

toSpreadsheetJSON(m, dflt, sel) ==
    [ sheets |-> << ExportSheet(m, dflt, ActiveCell(sel)) >>,
      activeSheet |-> "Sheet1",
      columnWidth |-> Num(N(DEFAULT_COL_WIDTH)),
      rowHeight |-> Num(N(DEFAULT_ROW_HEIGHT)),
      defaultCellStyle |-> Null ]

\* ----- #fromSpreadsheetJSON -----
IsNum(v) == v # Null /\ v # NaN
MaxOf(S) == CHOOSE x \in S : \A y \in S : y <= x
clamp(v, lo, hi) == Max(lo, Min(hi, v))
\* { ...a, ...b }
Spread(a, b) ==
    LET has(k) == \E j \in 1..Len(b) : b[j][1] = k
        val(k) == b[CHOOSE j \in 1..Len(b) : b[j][1] = k][2]
    IN [i \in 1..Len(a) |-> IF has(a[i][1]) THEN <<a[i][1], val(a[i][1])>> ELSE a[i]]
       \o SelectSeq(b, LAMBDA p : \A i \in 1..Len(a) : a[i][1] # p[1])

\* the sheet the import reads, Null when there is none
SheetOf(json) ==
    LET sheets == json.sheets
        activeName == IF json.activeSheet # "" THEN json.activeSheet
                      ELSE IF Len(sheets) > 0 THEN sheets[1].name ELSE ""
        named == SelectSeq(sheets, LAMBDA sh : sh.name = activeName)
    IN IF Len(named) > 0 THEN named[1] ELSE IF Len(sheets) > 0 THEN sheets[1] ELSE Null

RowList(sheet) == IF sheet.rows # Null THEN sheet.rows.array ELSE << >>
CellList(row) == IF row.cells # Null THEN row.cells.array ELSE << >>

\* the cells the two loops over sheet.rows visit, in order, with their row and column
\* numbers: those of a row with a finite index and a list of cells, with a finite index
RECURSIVE Visited(_, _)
Visited(rows, i) ==
    IF i > Len(rows) THEN << >>
    ELSE LET fin == SelectSeq(CellList(rows[i]), LAMBDA cell : IsNum(cell.index))
         IN (IF IsNum(rows[i].index)
             THEN [j \in 1..Len(fin) |-> [r |-> rows[i].index.num, c |-> fin[j].index.num, cell |-> fin[j]]]
             ELSE << >>) \o Visited(rows, i + 1)

\* an extent without the floor of two rows and two columns
ExtentOfSignals(rowNums, colNums) ==
    [ rows |-> MaxOf(rowNums \cup { -Unit }) + Unit,
      cols |-> MaxOf(colNums \cup { -Unit }) + Unit ]

\* the row and column numbers the import finds in the sheet
ExtentOf(rowNums, colNums) ==
    [ rows |-> Max(N(2), MaxOf(rowNums \cup { -Unit }) + Unit),
      cols |-> Max(N(2), MaxOf(colNums \cup { -Unit }) + Unit) ]

\* the addresses that bump the extent: activeCell, and the ends of the selection and merges
Bumps(active, ranges) ==
    (IF active # Null THEN { active } ELSE {}) \cup { e.end : e \in ranges \ { Null } }

ImportBumps(sheet) ==
    Bumps(IF sheet.activeCell # "" THEN parseA1(sheet.activeCell) ELSE Null,
          { parseA1Range(rng) : rng \in { sheet.selection } \ { << >> } }
          \cup (IF sheet.mergedCells # Null
                THEN { parseA1Range(sheet.mergedCells.array[i]) : i \in 1..Len(sheet.mergedCells.array) }
                ELSE {}))

\* the finite cell indices of a row
CellNums(cells) == { cells[j].index.num : j \in { k \in 1..Len(cells) : IsNum(cells[k].index) } }

\* rows and cols as the import computes them
Extent(sheet, rows, bumps) ==
    ExtentOf({ rows[i].index.num : i \in { j \in 1..Len(rows) : IsNum(rows[j].index) } }
               \cup { p.r : p \in bumps },
             UNION { CellNums(CellList(rows[i])) : i \in 1..Len(rows) }
               \cup (IF sheet.columns # Null THEN { N(Len(sheet.columns.array)) - Unit } ELSE {})
               \cup { p.c : p \in bumps })

ImportExtent(sheet) == Extent(sheet, RowList(sheet), ImportBumps(sheet))

\* data[ri][ci] = ...  fails when data has no row ri
VisitThrows(visited) == \E k \in 1..Len(visited) : ~(IsInteger(visited[k].r) /\ visited[k].r >= 0)
ImportThrows(sheet) == VisitThrows(Visited(RowList(sheet), 1))

\* the grid of texts: every visited cell writes its value, the later write staying
ImportText(visited, hits) ==
    IF hits = {} THEN ""
    ELSE IF visited[MaxOf(hits)].cell.value = NullValue THEN ""
    ELSE visited[MaxOf(hits)].cell.value

ImportData(extent, visited) ==
    [r \in 1..ToLength(extent.rows) |-> [c \in 1..ToLength(extent.cols) |->
        ImportText(visited, { k \in 1..Len(visited) :
                                 visited[k].r = N(r - 1) /\ visited[k].c = N(c - 1) })]]

\* a width or height as a style, Null when it is no finite number
SizeStyle(key, size) == IF IsNum(size) THEN Obj(<< <<key, PxText(size.num)>> >>) ELSE Null

ColumnWidth(col, columnWidth) == IF col # Null /\ col.width # Null THEN col.width ELSE columnWidth

ImportColumnStyles(json, columns, extent) ==
    [c \in 1..ToLength(extent.cols) |->
        SizeStyle("width", ColumnWidth(At(columns, c - 1), json.columnWidth))]

RowHeight(rowList, hits, rowHeight) == IF hits # {} THEN rowList[MaxOf(hits)].height ELSE rowHeight

ImportRowStyles(json, rowList, extent) ==
    [r \in 1..ToLength(extent.rows) |->
        SizeStyle("height",
                  RowHeight(rowList,
                            { i \in 1..Len(rowList) :
                                /\ IsNum(rowList[i].index) /\ IsNum(rowList[i].height)
                                /\ rowList[i].index.num = N(r - 1) },
                            json.rowHeight))]

\* the style of a listed cell: the default, then the nested record, then the inline keys
\* a merge in which the nested record is laid over the inline keys
MergedStyleNestedLast(dflt, nested, inline) ==
    sanitizeStyle(Obj(IF dflt # Null THEN Spread(Entries(dflt), Spread(Entries(inline), Entries(nested)))
                      ELSE Spread(Entries(inline), Entries(nested))))

MergedStyle(dflt, nested, inline) ==
    sanitizeStyle(Obj(IF dflt # Null THEN Spread(Entries(dflt), Spread(Entries(nested), Entries(inline)))
                      ELSE Spread(Entries(nested), Entries(inline))))

\* cellStyles[key] = sanitized for every visited cell whose style is not empty
StyleMap(keys, styles) ==
    [key \in { keys[k] : k \in { j \in 1..Len(keys) : styles[j] # Null } } |->
        styles[MaxOf({ k \in 1..Len(keys) : styles[k] # Null /\ keys[k] = key })]]

ImportCellStyles(visited, dflt) ==
    StyleMap([k \in 1..Len(visited) |-> cellKey(visited[k].r, visited[k].c)],
             [k \in 1..Len(visited) |->
                 MergedStyle(dflt, mapStyle(visited[k].cell.style), mapStyle(visited[k].cell.inline))])

ParsedMerges(parsed) ==
    LET got == SelectSeq(parsed, LAMBDA pr : pr # Null)
    IN [j \in 1..Len(got) |-> [kind |-> "range", start |-> got[j].start, end |-> got[j].end]]

ImportMerges(merges, extent) ==
    sanitizeMerges(Arr(ParsedMerges([i \in 1..Len(merges) |-> parseA1Range(merges[i])])),
                   extent.rows, extent.cols)

\* the selection to restore: the selection range if it parses, else activeCell
\* a restored selection that is always the cell at the start of the range
SelectionAtStart(rng, ac, rows, cols) ==
    IF rng # Null
    THEN [type |-> "cell", r |-> clamp(rng.start.r, 0, rows - Unit), c |-> clamp(rng.start.c, 0, cols - Unit)]
    ELSE IF ac # Null
    THEN [type |-> "cell", r |-> clamp(ac.r, 0, rows - Unit), c |-> clamp(ac.c, 0, cols - Unit)]
    ELSE Null

SelectionOf(rng, ac, rows, cols) ==
    IF rng # Null
    THEN LET sr == clamp(rng.start.r, 0, rows - Unit)
             er == clamp(rng.end.r, 0, rows - Unit)
             sc == clamp(rng.start.c, 0, cols - Unit)
             ec == clamp(rng.end.c, 0, cols - Unit)
         IN IF sr = er /\ sc = 0 /\ ec = cols - Unit THEN [type |-> "row", r |-> sr]
            ELSE IF sc = ec /\ sr = 0 /\ er = rows - Unit THEN [type |-> "col", c |-> sc]
            ELSE [type |-> "cell", r |-> sr, c |-> sc]
    ELSE IF ac # Null
    THEN [type |-> "cell", r |-> clamp(ac.r, 0, rows - Unit), c |-> clamp(ac.c, 0, cols - Unit)]
    ELSE Null

ImportSelection(sheet, extent) ==
    SelectionOf(IF sheet.selection # << >> THEN parseA1Range(sheet.selection) ELSE Null,
                IF sheet.activeCell # "" THEN parseA1(sheet.activeCell) ELSE Null,
                extent.rows, extent.cols)

\* what the import assigns: the model, the default style and the selection
ImportSheet(json, sheet, extent, visited, dflt) ==
    [ model |-> [ rows |-> extent.rows,
                  cols |-> extent.cols,
                  data |-> ImportData(extent, visited),
                  columnStyles |-> ImportColumnStyles(json,
                                       IF sheet.columns # Null THEN sheet.columns.array ELSE << >>, extent),
                  rowStyles |-> ImportRowStyles(json, RowList(sheet), extent),
                  cellStyles |-> ImportCellStyles(visited, dflt),
                  mergedCells |-> ImportMerges(IF sheet.mergedCells # Null THEN sheet.mergedCells.array
                                               ELSE << >>, extent) ],
      defaultCellStyle |-> dflt,
      selection |-> ImportSelection(sheet, extent) ]

DefaultOf(json, sheet) ==
    mapStyle(IF sheet.defaultCellStyle # Null THEN sheet.defaultCellStyle ELSE json.defaultCellStyle)

Import(json, sheet) ==
    ImportSheet(json, sheet, ImportExtent(sheet), Visited(RowList(sheet), 1), DefaultOf(json, sheet))

fromSpreadsheetJSON(json) == Import(json, SheetOf(json))

\* ----- inputs -----
IndexInputs == { N(i) : i \in -1..(MaxSide + 1) }
TextInputs == { "a", "" }

BigStyle == Obj([i \in 1..(MaxProps + 2) |-> <<"p" \o ToString(i), "v">>])
StyleBold == Obj(<< <<"fontWeight", "bold">> >>)
StyleMessy == Obj(<< <<" color ", "red">>, <<"  ", "x">>, <<"textAlign", NullValue>>,
                     <<"fontStyle", "">>, <<"height", "30px">> >>)
StyleWidth == Obj(<< <<"width", "160px">>, <<"textAlign", "center">> >>)
StyleInputs == { Null, Obj(<< >>), StyleBold, StyleMessy, BigStyle }
\* the styles given to a row or a column: one more, of a font size
StyleLarge == Obj(<< <<"fontSize", "14px">> >>)
LayerStyleInputs == StyleInputs \cup { StyleLarge }

PatchInputs == { << <<"fontWeight", "bold">> >>, << <<"textAlign", "center">> >>,
                 << <<"width", "120px">> >>, << <<"fontWeight", NullValue>> >> }

Range(sr, sc, er, ec) ==
    [kind |-> "range", start |-> [r |-> N(sr), c |-> N(sc)], end |-> [r |-> N(er), c |-> N(ec)]]

Candidate(rows, cols, data, columnStyles, rowStyles, cellStyles, mergedCells) ==
    [ rows |-> rows, cols |-> cols, data |-> data, columnStyles |-> columnStyles,
      rowStyles |-> rowStyles, cellStyles |-> cellStyles, mergedCells |-> mergedCells ]

\* a 3 x 3 table with text, styles in every layer and merges
CandidateStyled ==
    Candidate(Num(N(3)), Num(N(3)),
              Arr(<< <<"a", "b", "c">>, <<"d", NullValue, "f">>, <<"g", "h", "i">> >>),
              Arr(<< StyleWidth, Null, StyleBold >>),
              Arr(<< Null, StyleMessy, StyleBold >>),
              Arr(<< [key |-> "C1R1", style |-> StyleBold], [key |-> "c3r3", style |-> StyleMessy],
                     [key |-> "C2R3", style |-> StyleWidth], [key |-> "C9R9", style |-> StyleBold],
                     [key |-> "x", style |-> StyleBold] >>),
              Arr(<< Range(0, 0, 0, 1), Range(2, 2, 1, 1), Range(1, 0, 1, 0), [kind |-> "junk"],
                     [kind |-> "a1", parts |-> <<"A3", "B3">>] >>))

\* a table whose cellStyles is null
CandidateNullStyles == Candidate(Num(N(2)), Num(N(2)), Null, Null, Null, JsNull, Null)

ModelInputs ==
    { Null,
      CandidateStyled,
      \* a column style of more properties than #sanitizeStyle keeps, under a cell style
      Candidate(Num(N(2)), Num(N(2)), Null, Arr(<< BigStyle >>), Null,
                Arr(<< [key |-> "C1R1", style |-> StyleBold] >>), Null),
      \* the shape is taken from data
      Candidate(Null, Null, Arr(<< <<"a", "b", "c">>, <<"d">> >>), Null, Null, Null, Null),
      \* no rows
      Candidate(Num(0), Num(N(2)), Null, Null, Null, Null, Arr(<< Range(0, 0, 1, 1) >>)),
      \* unusable and negative sizes
      Candidate(NaN, Num(-N(1)), Null, Null, Null, Null, Null),
      \* fractional sizes
      Candidate(Num(N(2)), Num(N(2) + 1), Arr(<< <<"a", "b", "c">>, <<"d", "e", "f">> >>),
                Null, Null, Null, Null),
      Candidate(Num(N(1) + 1), Num(N(2)), Arr(<< <<"a", "b">>, <<"d", "e">> >>), Null, Null, Null, Null),
      CandidateNullStyles,
      \* a cell style under a key whose row number is 0
      Candidate(Num(N(2)), Num(N(2)), Null, Null, Null,
                Arr(<< [key |-> "C1R0", style |-> StyleBold], [key |-> "C2R2", style |-> StyleBold] >>), Null) }

Cell(index, value, style, inline) ==
    [index |-> index, value |-> value, style |-> style, inline |-> inline]
Row(index, height, cells) == [index |-> index, height |-> height, cells |-> cells]
Sheet(columns, rows, range, activeCell, mergedCells, dflt) ==
    [ name |-> "Sheet1", columns |-> columns, rows |-> rows, selection |-> range,
      activeCell |-> activeCell, mergedCells |-> mergedCells, defaultCellStyle |-> dflt ]
Payload(sheets) ==
    [ sheets |-> sheets, activeSheet |-> "", columnWidth |-> Null, rowHeight |-> Null,
      defaultCellStyle |-> Null ]

SheetInputs ==
    { \* no sheet
      Payload(<< >>),
      \* text, sizes, a default style, nested and inline cell styles, merges, a selection
      Payload(<< Sheet(Arr(<< [width |-> Num(N(100))], [width |-> Null] >>),
                       Arr(<< Row(Num(0), Num(N(30)),
                                  Arr(<< Cell(Num(0), "x",
                                              Obj(<< <<"bold", SBool(TRUE)>>, <<"hAlign", SStr("Center")>> >>),
                                              Null),
                                         Cell(Num(N(2)), NullValue, Null,
                                              Obj(<< <<"fontColor", SStr("red")>> >>)) >>)),
                              Row(Num(N(2)), Null, Null) >>),
                       <<"A1", "C1">>, "B3",
                       Arr(<< <<"A1", "B2">>, <<"zz">> >>),
                       Obj(<< <<"fontFamily", SStr("Arial")>>, <<"fontSize", SNum(N(12))>> >>)) >>),
      \* a row whose index is not a whole number, without cells
      Payload(<< Sheet(Null, Arr(<< Row(Num(N(2) + 1), Null, Null) >>), << >>, "", Null, Null) >>),
      \* a row with a negative index
      Payload(<< Sheet(Null, Arr(<< Row(Num(-N(1)), Null, Arr(<< Cell(Num(0), "x", Null, Null) >>)) >>),
                       << >>, "", Null, Null) >>),
      \* nothing but an active cell
      Payload(<< Sheet(Null, Null, << >>, "C5", Null, Null) >>),
      \* a selection that starts outside the grid its end implies
      Payload(<< Sheet(Null, Null, <<"C3", "A1">>, "", Null, Null) >>),
      \* a cell whose nested style names concepts by several aliases, under inline keys
      \* and a default style that name the same properties, beside a cell without style
      Payload(<< Sheet(Null,
                       Arr(<< Row(Num(0), Null,
                                  Arr(<< Cell(Num(0), "y",
                                              Obj(<< <<"textAlign", SStr("left")>>, <<"hAlign", SStr("right")>>,
                                                     <<"verticalAlign", SStr("bottom")>>, <<"vAlign", SStr("TOP")>>,
                                                     <<"wrap", SBool(TRUE)>>, <<"wordWrap", SBool(FALSE)>>,
                                                     <<"fontColor", SStr("blue")>>, <<"color", SStr("red")>>,
                                                     <<"fillColor", SStr("black")>>, <<"bgColor", SStr("white")>>,
                                                     <<"fontFamily", SStr("Mono")>> >>),
                                              Obj(<< <<"color", SStr("green")>>, <<"bold", SBool(TRUE)>> >>)),
                                         Cell(Num(N(1)), "z", Null, Null) >>)) >>),
                       << >>, "", Null,
                       Obj(<< <<"color", SStr("black")>>, <<"fontFamily", SStr("Arial")>>,
                              <<"fontSize", SNum(N(12))>>, <<"italic", SBool(TRUE)>> >>)) >>) }

\* what fromJSON is called with: an internal model, or a spreadsheet payload,
\* the export of the table as it is among them
JsonInputs(m, dflt, sel) ==
    { [kind |-> "model", m |-> c] : c \in { Null, CandidateStyled, CandidateNullStyles } }
    \cup { [kind |-> "sheets", json |-> j] :
            j \in SheetInputs \cup (IF ExportThrows(m) THEN {} ELSE { toSpreadsheetJSON(m, dflt, sel) }) }

\* ----- the calls -----
\* threw: the call ended with an exception (of the operation itself or of #render)
Call(op, args, threw) == [op |-> op, args |-> args, threw |-> threw]

Init ==
    \E rows \in 1..MaxSide, cols \in 1..MaxSide :
        /\ model = createEmptyModel(N(rows), N(cols))
        /\ defaultCellStyle = Null
        /\ selection = Null
        /\ rendered = render(createEmptyModel(N(rows), N(cols)))
        /\ last = Call("new", <<N(rows), N(cols)>>, FALSE)
        /\ nops = 0

AddRow ==
    /\ nops < MaxOps
    /\ model' = addRow(model)
    /\ rendered' = render(model')
    /\ last' = Call("addRow", << >>, ~rendered')
    /\ nops' = nops + 1
    /\ UNCHANGED <<defaultCellStyle, selection>>

AddColumn ==
    /\ nops < MaxOps
    /\ model' = addColumn(model)
    /\ rendered' = IF RowLoopThrows(model) THEN rendered ELSE render(model')
    /\ last' = Call("addColumn", << >>, RowLoopThrows(model) \/ ~rendered')
    /\ nops' = nops + 1
    /\ UNCHANGED <<defaultCellStyle, selection>>

RemoveRow ==
    \E index \in IndexInputs :
        LET returned == model.rows <= N(1) \/ index < 0 \/ index >= model.rows
        IN /\ nops < MaxOps
           /\ model' = removeRow(model, index)
           /\ rendered' = IF returned THEN rendered ELSE render(model')
           /\ last' = Call("removeRow", <<index>>, ~returned /\ ~rendered')
           /\ nops' = nops + 1
           /\ UNCHANGED <<defaultCellStyle, selection>>

RemoveColumn ==
    \E index \in IndexInputs :
        LET returned == model.cols <= N(1) \/ index < 0 \/ index >= model.cols
        IN /\ nops < MaxOps
           /\ model' = removeColumn(model, index)
           /\ rendered' = IF returned \/ RowLoopThrows(model) THEN rendered ELSE render(model')
           /\ last' = Call("removeColumn", <<index>>, ~returned /\ (RowLoopThrows(model) \/ ~rendered'))
           /\ nops' = nops + 1
           /\ UNCHANGED <<defaultCellStyle, selection>>

SetCellStyle ==
    \E r \in IndexInputs, c \in IndexInputs, styleObj \in StyleInputs :
        LET returned == r < 0 \/ r >= model.rows \/ c < 0 \/ c >= model.cols
        IN /\ nops < MaxOps
           /\ model' = setCellStyle(model, r, c, styleObj)
           /\ rendered' = IF returned THEN rendered ELSE render(model')
           /\ last' = Call("setCellStyle", <<r, c, styleObj>>, ~returned /\ ~rendered')
           /\ nops' = nops + 1
           /\ UNCHANGED <<defaultCellStyle, selection>>

SetColumnStyle ==
    \E index \in IndexInputs, styleObj \in LayerStyleInputs :
        LET returned == index < 0 \/ index >= model.cols
        IN /\ nops < MaxOps
           /\ model' = setColumnStyle(model, index, styleObj)
           /\ rendered' = IF returned THEN rendered ELSE render(model')
           /\ last' = Call("setColumnStyle", <<index, styleObj>>, ~returned /\ ~rendered')
           /\ nops' = nops + 1
           /\ UNCHANGED <<defaultCellStyle, selection>>

SetRowStyle ==
    \E index \in IndexInputs, styleObj \in LayerStyleInputs :
        LET returned == index < 0 \/ index >= model.rows
        IN /\ nops < MaxOps
           /\ model' = setRowStyle(model, index, styleObj)
           /\ rendered' = IF returned THEN rendered ELSE render(model')
           /\ last' = Call("setRowStyle", <<index, styleObj>>, ~returned /\ ~rendered')
           /\ nops' = nops + 1
           /\ UNCHANGED <<defaultCellStyle, selection>>

SetModel ==
    \E m \in ModelInputs :
        /\ nops < MaxOps
        /\ IF NormalizeThrows(m)
           THEN /\ last' = Call("setModel", <<m>>, TRUE)
                /\ UNCHANGED <<model, rendered>>
           ELSE /\ model' = normalizeModel(m)
                /\ rendered' = render(model')
                /\ last' = Call("setModel", <<m>>, ~rendered')
        /\ nops' = nops + 1
        /\ UNCHANGED <<defaultCellStyle, selection>>

\* this.model = ...; this._selection = sel; with this._defaultCellStyle set before
Assign(got) ==
    /\ model' = got.model
    /\ defaultCellStyle' = got.defaultCellStyle
    /\ selection' = got.selection

\* the spreadsheet branch of fromJSON on a payload whose sheet is `sheet`
FromSheet(obj, sheet) ==
    IF sheet = Null
    THEN /\ last' = Call("fromJSON", <<obj>>, FALSE)
         /\ UNCHANGED <<model, defaultCellStyle, selection, rendered>>
    ELSE IF ImportThrows(sheet)
    THEN /\ last' = Call("fromJSON", <<obj>>, TRUE)
         /\ UNCHANGED <<model, defaultCellStyle, selection, rendered>>
    ELSE /\ Assign(Import(obj.json, sheet))
         /\ rendered' = render(model')
         /\ last' = Call("fromJSON", <<obj>>, ~rendered')

FromJSON ==
    \E obj \in JsonInputs(model, defaultCellStyle, selection) :
        /\ nops < MaxOps
        /\ nops' = nops + 1
        /\ IF obj.kind = "model"
           THEN /\ defaultCellStyle' = Null
                /\ IF NormalizeThrows(obj.m)
                   THEN /\ last' = Call("fromJSON", <<obj>>, TRUE)
                        /\ UNCHANGED <<model, rendered>>
                   ELSE /\ model' = normalizeModel(obj.m)
                        /\ rendered' = render(model')
                        /\ last' = Call("fromJSON", <<obj>>, ~rendered')
                /\ UNCHANGED selection
           ELSE FromSheet(obj, SheetOf(obj.json))

\* what the file input of the demo page is given: a text JSON.parse rejects, or the
\* text of an internal model or of a spreadsheet payload
FileInputs ==
    { [kind |-> "text", text |-> "{"],
      [kind |-> "model", m |-> CandidateStyled],
      [kind |-> "model", m |-> CandidateNullStyles],
      [kind |-> "sheets", json |-> Payload(<< >>)],
      [kind |-> "sheets", json |-> Payload(<< Sheet(Null, Null, << >>, "C5", Null, Null) >>)] }

\* the change handler of the file input: try { table.fromJSON(JSON.parse(text)) }
\* catch { alert }, so that neither a parse failure nor a failing fromJSON leaves it
ImportFile ==
    \E file \in FileInputs :
        /\ nops < MaxOps
        /\ nops' = nops + 1
        /\ last' = Call("importFile", <<file>>, FALSE)
        /\ IF file.kind = "text"
           THEN UNCHANGED <<model, defaultCellStyle, selection, rendered>>
           ELSE IF file.kind = "model"
           THEN /\ defaultCellStyle' = Null
                /\ IF NormalizeThrows(file.m)
                   THEN UNCHANGED <<model, rendered>>
                   ELSE model' = normalizeModel(file.m) /\ rendered' = render(model')
                /\ UNCHANGED selection
           ELSE IF SheetOf(file.json) = Null \/ ImportThrows(SheetOf(file.json))
           THEN UNCHANGED <<model, defaultCellStyle, selection, rendered>>
           ELSE /\ Assign(Import(file.json, SheetOf(file.json)))
                /\ rendered' = render(model')

\* a click on a column head, a row head, or the focus of a cell of the rendered table
Select ==
    \E sel \in { [type |-> "col", c |-> N(c)] : c \in Below(model.cols) }
               \cup { [type |-> "row", r |-> N(r)] : r \in Below(model.rows) }
               \cup { [type |-> "cell", r |-> N(rc[1]), c |-> N(rc[2])] : rc \in Cells(model) } :
        /\ nops < MaxOps
        /\ rendered
        /\ selection' = sel
        /\ last' = Call("select", <<sel>>, FALSE)
        /\ nops' = nops + 1
        /\ UNCHANGED <<model, defaultCellStyle, rendered>>

\* row[c] = value on a row of data: the row grows to hold position c
SetText(row, c, value) ==
    [j \in 1..Max(Len(row), c + 1) |->
        IF j = c + 1 THEN value ELSE IF j <= Len(row) THEN row[j] ELSE NullValue]

\* the input event of a cell of the rendered table
EditCell ==
    \E rc \in Cells(model), value \in TextInputs :
        /\ nops < MaxOps
        /\ rendered
        /\ model' = [model EXCEPT !.data[rc[1] + 1] = SetText(@, rc[2], value)]
        /\ last' = Call("input", <<N(rc[1]), N(rc[2]), value>>, FALSE)
        /\ nops' = nops + 1
        /\ UNCHANGED <<defaultCellStyle, selection, rendered>>

\* whether #applyStyleToSelection reaches #render: its last call is a setter,
\* which returns before #render for a selection outside the table
ToolbarRenders(m, sel) ==
    /\ sel # Null
    /\ sel.type \in { "cell", "row" } => (sel.r >= 0 /\ sel.r < m.rows)
    /\ sel.type \in { "cell", "col" } => (sel.c >= 0 /\ sel.c < m.cols)

\* a toolbar button or input: #applyStyleToSelection, with 'clear' or a patch
Toolbar ==
    \E clear \in BOOLEAN, patch \in PatchInputs :
        /\ nops < MaxOps
        /\ rendered
        /\ clear => patch = << <<"fontWeight", NullValue>> >>
        /\ model' = applyStyleToSelection(model, selection, clear, patch)
        /\ rendered' = IF ToolbarRenders(model, selection) THEN render(model') ELSE rendered
        /\ last' = Call("toolbar", <<clear, patch>>, ToolbarRenders(model, selection) /\ ~rendered')
        /\ nops' = nops + 1
        /\ UNCHANGED <<defaultCellStyle, selection>>

Next ==
    \/ AddRow
    \/ AddColumn
    \/ RemoveRow
    \/ RemoveColumn
    \/ SetCellStyle
    \/ SetColumnStyle
    \/ SetRowStyle
    \/ SetModel
    \/ FromJSON
    \/ ImportFile
    \/ Select
    \/ EditCell
    \/ Toolbar

Spec == Init /\ [][Next]_vars

\* ----- the properties -----
\* the text the grid holds at (r, c), NullValue where data has no such cell
TextAt(m, r, c) ==
    IF r >= 0 /\ r < Len(m.data) /\ c >= 0 /\ c < Len(m.data[r + 1]) THEN m.data[r + 1][c + 1]
    ELSE NullValue

\* the call the step makes, and its arguments
Op == last'.op
Arg(i) == last'.args[i]

\* C1: after any sequence of addRow, addColumn, removeRow, removeColumn, style setters,
\* setModel and fromJSON, data has exactly model.rows rows and every row has exactly
\* model.cols entries.
C1_DenseRectangle ==
    /\ N(Len(model.data)) = model.rows
    /\ \A r \in 1..Len(model.data) : N(Len(model.data[r])) = model.cols

\* C2: a structural edit or a style operation on a table whose columnStyles has cols
\* entries and whose rowStyles has rows entries leaves it so; addRow extends rowStyles by
\* one null entry and leaves merges and cellStyles unchanged, addColumn extends
\* columnStyles by one null entry.
StyleLengths(m) == N(Len(m.columnStyles)) = m.cols /\ N(Len(m.rowStyles)) = m.rows
C2_StyleLengths ==
    [][(/\ StyleLengths(model)
        /\ Op \in { "addRow", "addColumn", "removeRow", "removeColumn",
                    "setCellStyle", "setColumnStyle", "setRowStyle" })
       => /\ StyleLengths(model')
          /\ Op = "addRow" => /\ model'.rowStyles = Append(model.rowStyles, Null)
                              /\ model'.mergedCells = model.mergedCells
                              /\ model'.cellStyles = model.cellStyles
          /\ Op = "addColumn" => model'.columnStyles = Append(model.columnStyles, Null)]_vars

\* C3: from a grid with rows >= 1 and cols >= 1, no removeRow, removeColumn, addRow or
\* addColumn call takes rows or cols below 1; a removeRow / removeColumn call with an index
\* outside [0, rows) resp. [0, cols), or made when one row resp. column is left, leaves data,
\* all style layers and merges unchanged.
C3_NeverBelowOne ==
    [][(/\ model.rows >= N(1) /\ model.cols >= N(1)
        /\ Op \in { "removeRow", "removeColumn", "addRow", "addColumn" })
       => /\ model'.rows >= N(1) /\ model'.cols >= N(1)
          /\ (Op = "removeRow" /\ (Arg(1) < 0 \/ Arg(1) >= model.rows \/ model.rows = N(1)))
                => model' = model
          /\ (Op = "removeColumn" /\ (Arg(1) < 0 \/ Arg(1) >= model.cols \/ model.cols = N(1)))
                => model' = model]_vars

\* the whole positions an array of the model can hold
Places == 0..(MaxSide + MaxOps + 1)
\* where position j is once position i is gone (j # i)
After(i, j) == IF j > i THEN j - 1 ELSE j
\* the call removes a row / a column: it passes the guards and completes its loop
RemovesRow == Op = "removeRow" /\ model.rows > N(1) /\ Arg(1) >= 0 /\ Arg(1) < model.rows
RemovesColumn ==
    Op = "removeColumn" /\ model.cols > N(1) /\ Arg(1) >= 0 /\ Arg(1) < model.cols
        /\ ~RowLoopThrows(model)

\* the cell styles after position i of the axis is gone: the entries at i dropped,
\* those beyond i moved one back, the others where they were, and nothing else
ReKeyed(old, new, i, axis) ==
    LET at(k) == IF axis = "r" THEN parseCellKey(k).r ELSE parseCellKey(k).c
        moved(k) ==
            LET p == parseCellKey(k)
            IN IF axis = "r" THEN cellKey(N(After(i, Trunc(p.r))), p.c)
               ELSE cellKey(p.r, N(After(i, Trunc(p.c))))
        stay == { k \in DOMAIN old : at(k) # N(i) }
    IN /\ DOMAIN new = { moved(k) : k \in stay }
       /\ \A k \in stay : new[moved(k)] = old[k]

\* C4: a successful removeRow(i) drops every cell-style entry at row i, moves the cell
\* style, the row style and the text of every row j > i to row j - 1 (same column) and
\* leaves the rows j < i as they were; removeColumn(i) does the same over the columns,
\* with the column styles.
C4_RemoveShifts ==
    [][/\ RemovesRow =>
            LET i == Trunc(Arg(1))
            IN /\ ReKeyed(model.cellStyles, model'.cellStyles, i, "r")
               /\ \A j \in Places \ {i} :
                    /\ At(model'.rowStyles, After(i, j)) = At(model.rowStyles, j)
                    /\ \A c \in Places : TextAt(model', After(i, j), c) = TextAt(model, j, c)
               /\ model'.columnStyles = model.columnStyles
       /\ RemovesColumn =>
            LET i == Trunc(Arg(1))
            IN /\ ReKeyed(model.cellStyles, model'.cellStyles, i, "c")
               /\ \A j \in Places \ {i} :
                    /\ At(model'.columnStyles, After(i, j)) = At(model.columnStyles, j)
                    /\ \A r \in Places : TextAt(model', r, After(i, j)) = TextAt(model, r, j)
               /\ model'.rowStyles = model.rowStyles]_vars

\* a removal that moved a styled cell, a styled row and a text one row up
C4_Witness ==
    /\ last.op = "removeRow" /\ last.args = <<0>>
    /\ model.rows = N(2)
    /\ getCellStyle(model, N(1), N(2)) # Null
    /\ getRowStyle(model, N(1)) # Null
    /\ TextAt(model, 0, 0) = "d"

\* the merges after row i is gone: the ranges over i dropped, those below moved up
MergesWithoutRow(merges, i) ==
    LET kept == SelectSeq(merges, LAMBDA m : ~(m.start.r <= i /\ i <= m.end.r))
    IN [j \in 1..Len(kept) |->
            IF kept[j].start.r > i
            THEN [start |-> [r |-> kept[j].start.r - Unit, c |-> kept[j].start.c],
                  end |-> [r |-> kept[j].end.r - Unit, c |-> kept[j].end.c]]
            ELSE kept[j]]
MergesWithoutColumn(merges, i) ==
    LET kept == SelectSeq(merges, LAMBDA m : ~(m.start.c <= i /\ i <= m.end.c))
    IN [j \in 1..Len(kept) |->
            IF kept[j].start.c > i
            THEN [start |-> [r |-> kept[j].start.r, c |-> kept[j].start.c - Unit],
                  end |-> [r |-> kept[j].end.r, c |-> kept[j].end.c - Unit]]
            ELSE kept[j]]

\* C5: a successful removeRow(i) drops every merge range whose rows [start.r, end.r] hold
\* i, never shrinking it, moves both row components of every range below i up by one and
\* leaves every range above i unchanged, the column components untouched; removeColumn(i)
\* does the same over the columns.
C5_RemoveMerges ==
    [][/\ RemovesRow => model'.mergedCells = MergesWithoutRow(model.mergedCells, Arg(1))
       /\ RemovesColumn => model'.mergedCells = MergesWithoutColumn(model.mergedCells, Arg(1))]_vars

\* a removal of the middle row that left the range above it, dropped the range over it
\* and moved the range below it up
C5_Witness ==
    /\ last.op = "removeRow" /\ last.args = <<N(1)>>
    /\ model.rows = N(2)
    /\ model.mergedCells =
         << [start |-> [r |-> N(0), c |-> N(0)], end |-> [r |-> N(0), c |-> N(1)]],
            [start |-> [r |-> N(1), c |-> N(0)], end |-> [r |-> N(1), c |-> N(1)]] >>

\* the value the layers give property k: that of the last layer that has a value for it
Layered(layers, k) ==
    LET has == { i \in 1..Len(layers) : CssGet(layers[i], k) \notin { NullValue, "" } }
    IN IF has = {} THEN NullValue ELSE CssGet(layers[MaxOf(has)], k)

\* C6: for every cell (r, c) of the grid, getEffectiveCellStyle(r, c) is the layering
\* default -> column c -> row r -> cell (r, c) taken property by property, a later layer's
\* value replacing an earlier one's; a cell with no cell, row or column style gets exactly
\* the default style.
C6_EffectiveIsLayering ==
    \A r \in Below(model.rows), c \in Below(model.cols) :
        LET layers == << defaultCellStyle, getColumnStyle(model, N(c)),
                         getRowStyle(model, N(r)), getCellStyle(model, N(r), N(c)) >>
            effective == getEffectiveCellStyle(model, defaultCellStyle, N(r), N(c))
        IN /\ \A i \in 1..4 : \A k \in Keys(layers[i]) : CssGet(effective, k) = Layered(layers, k)
           /\ Keys(effective) \subseteq UNION { Keys(layers[i]) : i \in 1..4 }
           /\ (layers[2] = Null /\ layers[3] = Null /\ layers[4] = Null)
                => SameProps(effective, defaultCellStyle)

\* C7: after setRowStyle(r, S) with a style S, getCellStyle(r, c) returns a per-cell
\* override equal to S for every column c of the row; likewise a style set on a column
\* is written to every cell of the column.
C7_RowStylePropagates ==
    [][/\ (Op = "setRowStyle" /\ getRowStyle(model', Arg(1)) # Null)
            => \A c \in Below(model'.cols) :
                 getCellStyle(model', Arg(1), N(c)) = getRowStyle(model', Arg(1))
       /\ (Op = "setColumnStyle" /\ getColumnStyle(model', Arg(1)) # Null)
            => \A r \in Below(model'.rows) :
                 getCellStyle(model', N(r), Arg(1)) = getColumnStyle(model', Arg(1))]_vars

\* a style that clears a layer
Clears(styleObj) == styleObj = Null \/ styleObj = Obj(<< >>)

Stored(m) ==
    { m.cellStyles[k] : k \in DOMAIN m.cellStyles }
    \cup { m.rowStyles[i] : i \in 1..Len(m.rowStyles) }
    \cup { m.columnStyles[i] : i \in 1..Len(m.columnStyles) }

\* C9: every style record a layer (cell, row, column) holds has at most 200 properties,
\* whatever the style given to the setter had; its keys are trimmed and not empty; a
\* record without properties is held as null, never as an empty map.
C9_StoredStylesCapped ==
    \A style \in Stored(model) \ {Null} :
        /\ Len(style.entries) <= MaxProps
        /\ Len(style.entries) > 0
        /\ \A i \in 1..Len(style.entries) :
             style.entries[i][1] # "" /\ Trim(style.entries[i][1]) = style.entries[i][1]

\* C10: fromJSON(toSpreadsheetJSON()) gives a grid in which every cell (r, c) of the
\* original grid has exactly the original text.
C10_TextRoundTrip ==
    [][(/\ Op = "fromJSON"
        /\ ~ExportThrows(model)
        /\ Arg(1) = [kind |-> "sheets", json |-> toSpreadsheetJSON(model, defaultCellStyle, selection)])
       => \A r \in 1..Len(model.data) : \A c \in 1..Len(model.data[r]) :
            /\ r <= Len(model'.data)
            /\ c <= Len(model'.data[r])
            /\ model'.data[r][c] = model.data[r][c]]_vars

\* the step is fromJSON(toSpreadsheetJSON()): the payload is the export of the table as it is
RoundTrip ==
    /\ Op = "fromJSON"
    /\ ~ExportThrows(model)
    /\ Arg(1) = [kind |-> "sheets", json |-> toSpreadsheetJSON(model, defaultCellStyle, selection)]

\* C11: the merge list after fromJSON(toSpreadsheetJSON()) equals the merge list before:
\* the same ranges with the same corners in the same order.
C11_MergeRoundTrip ==
    [][RoundTrip => model'.mergedCells = model.mergedCells]_vars

\* the canonical style properties
Vocabulary ==
    { "textAlign", "verticalAlign", "whiteSpace", "fontFamily", "fontSize", "color",
      "background", "fontWeight", "fontStyle", "textDecoration", "width", "height" }

\* C12: after fromJSON(toSpreadsheetJSON()), for every cell and every canonical property
\* whose effective value before the export differed from the default style's value, the
\* cell's effective style has the property with the same value.
C12_StyleRoundTrip ==
    [][RoundTrip =>
        \A r \in Below(model.rows), c \in Below(model.cols), k \in Vocabulary :
            LET before == CssGet(getEffectiveCellStyle(model, defaultCellStyle, N(r), N(c)), k)
            IN (before # NullValue /\ before # CssGet(defaultCellStyle, k))
                => CssGet(getEffectiveCellStyle(model', defaultCellStyle', N(r), N(c)), k) = before]_vars

\* C13: after fromJSON(toSpreadsheetJSON()) every column has the width style and every
\* row the height style it had before the export; a column or row without an explicit
\* width or height has none afterwards.
C13_SizingRoundTrip ==
    [][RoundTrip =>
        /\ \A c \in Below(model.cols) :
             CssGet(getColumnStyle(model', N(c)), "width") = CssGet(getColumnStyle(model, N(c)), "width")
        /\ \A r \in Below(model.rows) :
             CssGet(getRowStyle(model', N(r)), "height") = CssGet(getRowStyle(model, N(r)), "height")]_vars

\* C14: the style toSpreadsheetJSON exports for a cell has a property exactly when the
\* cell's layered value for it (column, then row, then cell, the later layer winning)
\* differs from the default style's value or the default has none, and the exported value
\* is that layered value, also when a later layer sets the property back to the default's
\* value after an earlier layer set another one.
C14_ExportedOverrides ==
    \A r \in Below(model.rows), c \in Below(model.cols) :
        LET layers == << At(model.columnStyles, c), At(model.rowStyles, r),
                         MapGet(model.cellStyles, cellKey(N(r), N(c))) >>
            exported == Obj(Overrides(model, defaultCellStyle, r, c))
        IN \A k \in Vocabulary :
            CssGet(exported, k) =
                IF Layered(layers, k) # CssGet(defaultCellStyle, k) THEN Layered(layers, k)
                ELSE NullValue

\* the row descriptors of an exported sheet that carry row r, and whether one of them
\* has a descriptor of cell c
RowsOut(sheet, r) == { i \in 1..Len(sheet.rows.array) : sheet.rows.array[i].index = Num(N(r)) }
CellOut(sheet, r, c) ==
    \E i \in RowsOut(sheet, r) :
        \E j \in 1..Len(sheet.rows.array[i].cells.array) :
            sheet.rows.array[i].cells.array[j].index = Num(N(c))

\* C15: toSpreadsheetJSON is sparse: a cell descriptor is emitted exactly for the cells
\* with non-empty text or a non-empty overridden style, a row descriptor exactly for the
\* rows with an emitted cell or an explicit height, and the columns list has exactly
\* model.cols entries.
C15_SparseExport ==
    ~ExportThrows(model) =>
        LET sheet == toSpreadsheetJSON(model, defaultCellStyle, selection).sheets[1]
        IN /\ N(Len(sheet.columns.array)) = model.cols
           /\ \A r \in Below(model.rows) :
                /\ \A c \in Below(model.cols) :
                     CellOut(sheet, r, c) <=>
                        (TextAt(model, r, c) \notin { "", NullValue }
                            \/ ExportStyle(model, defaultCellStyle, r, c) # Null)
                /\ (RowsOut(sheet, r) # {}) <=>
                        ((\E c \in Below(model.cols) : CellOut(sheet, r, c))
                            \/ CssGet(At(model.rowStyles, r), "height") \notin { NullValue, "" })

\* the step is a fromJSON of a spreadsheet payload that has a sheet and is read to the end
Imports ==
    /\ Op = "fromJSON"
    /\ Arg(1).kind = "sheets"
    /\ SheetOf(Arg(1).json) # Null
    /\ ~ImportThrows(SheetOf(Arg(1).json))

\* the addresses a sheet refers to: its activeCell, the end of its selection range and
\* the end of each of its merge ranges, as far as they parse
Referred(sheet) ==
    LET ranges == { sheet.selection }
                  \cup (IF sheet.mergedCells = Null THEN {}
                        ELSE { sheet.mergedCells.array[i] : i \in 1..Len(sheet.mergedCells.array) })
    IN ({ parseA1(a) : a \in { sheet.activeCell } \ { "" } } \ { Null })
       \cup { parseA1Range(rng).end : rng \in { x \in ranges : parseA1Range(x) # Null } }
\* the row indices and the column indices a sheet refers to
RowSignals(sheet) ==
    LET rows == IF sheet.rows = Null THEN << >> ELSE sheet.rows.array
    IN { rows[i].index.num : i \in { j \in 1..Len(rows) : IsNum(rows[j].index) } }
       \cup { p.r : p \in Referred(sheet) }
ColSignals(sheet) ==
    LET rows == IF sheet.rows = Null THEN << >> ELSE sheet.rows.array
        cells(i) == IF rows[i].cells = Null THEN << >> ELSE rows[i].cells.array
    IN UNION { { cells(i)[j].index.num : j \in { k \in 1..Len(cells(i)) : IsNum(cells(i)[k].index) } } :
                 i \in 1..Len(rows) }
       \cup (IF sheet.columns = Null THEN {} ELSE { N(Len(sheet.columns.array)) - Unit })
       \cup { p.c : p \in Referred(sheet) }
\* the largest of the numbers plus one, and at least two
ExtentFrom(signals) == IF signals = {} THEN N(2) ELSE Max(N(2), MaxOf(signals) + Unit)

\* C16: on import the grid has as many rows (columns) as the largest of the referenced
\* row indices (cell column indices, column-descriptor count minus 1), the activeCell
\* address, the end of the selection range and the end of every merge range, plus 1, and
\* never fewer than 2; a sheet whose only signal is activeCell "C5" gives at least 5 rows
\* and 3 columns.
C16_ImportExtent ==
    [][Imports =>
        LET sheet == SheetOf(Arg(1).json)
        IN /\ model'.rows = ExtentFrom(RowSignals(sheet))
           /\ model'.cols = ExtentFrom(ColSignals(sheet))
           /\ model'.rows >= N(2) /\ model'.cols >= N(2)
           /\ sheet.activeCell = "C5" => (model'.rows >= N(5) /\ model'.cols >= N(3))]_vars

\* the import of the sheet that has nothing but the active cell C5
C16_Witness ==
    /\ last.op = "fromJSON"
    /\ last.args[1] = [kind |-> "sheets", json |-> Payload(<< Sheet(Null, Null, << >>, "C5", Null, Null) >>)]
    /\ model.rows = N(5) /\ model.cols = N(3)
    /\ Len(model.data) = 5

\* C17: the import of a payload whose sheets list is empty fails with an error the
\* caller gets, instead of returning silently.
C17_EmptySpreadsheet ==
    [][(Op = "fromJSON" /\ Arg(1).kind = "sheets" /\ Len(Arg(1).json.sheets) = 0)
        => last'.threw]_vars

\* C18: fromJSON never raises on a payload with at least one sheet or on a legacy model
\* object, whatever is malformed in it (negative, fractional or unusable indices, a null
\* cellStyles, malformed merges and addresses), and completes with a dense model.
C18_ImportNeverRaises ==
    [][(Op = "fromJSON" /\ (Arg(1).kind = "model" \/ SheetOf(Arg(1).json) # Null))
        => /\ ~last'.threw
           /\ N(Len(model'.data)) = model'.rows
           /\ \A r \in 1..Len(model'.data) : N(Len(model'.data[r])) = model'.cols]_vars

\* a coordinate brought into [0, n)
Into(v, n) == IF v < 0 THEN 0 ELSE IF v > n - Unit THEN n - Unit ELSE v
\* the selection a range stands for in a grid of rows x cols
OfRange(rng, rows, cols) ==
    LET sr == Into(rng.start.r, rows)
        er == Into(rng.end.r, rows)
        sc == Into(rng.start.c, cols)
        ec == Into(rng.end.c, cols)
    IN IF sr = er /\ sc = 0 /\ ec = cols - Unit THEN [type |-> "row", r |-> sr]
       ELSE IF sc = ec /\ sr = 0 /\ er = rows - Unit THEN [type |-> "col", c |-> sc]
       ELSE [type |-> "cell", r |-> sr, c |-> sc]
\* the selection lies in the grid
InGrid(sel, m) ==
    /\ sel.type \in { "cell", "row" } => (sel.r >= 0 /\ sel.r < m.rows)
    /\ sel.type \in { "cell", "col" } => (sel.c >= 0 /\ sel.c < m.cols)

MaxIndex == 1000

\* a column index to label: one of 0..MaxIndex, on a new table
LabelInit ==
    /\ model = createEmptyModel(N(DEFAULT_ROWS), N(DEFAULT_COLS))
    /\ defaultCellStyle = Null
    /\ selection = Null
    /\ rendered = TRUE
    /\ nops = 0
    /\ \E n \in 0..MaxIndex : last = Call("index", <<N(n)>>, FALSE)

\* the index is turned into its label and the label is read back
ToLabel ==
    /\ last.op = "index"
    /\ last' = [ op |-> "colIndexToLabel", args |-> last.args, threw |-> FALSE,
                 label |-> colIndexToLabel(last.args[1]),
                 back |-> colLabelToIndex(colIndexToLabel(last.args[1])) ]
    /\ UNCHANGED <<model, defaultCellStyle, selection, rendered, nops>>

LabelSpec == LabelInit /\ [][ToLabel]_vars

\* the number a label stands for in bijective base 26: A..Z are the digits 1..26
RECURSIVE Bijective(_)
Bijective(l) ==
    IF Len(l) = 0 THEN 0
    ELSE 26 * Bijective(SubSeq(l, 1, Len(l) - 1))
         + (CHOOSE d \in 1..26 : Letters[d] = l[Len(l)])

\* C20: the column labels are the bijective base-26 scheme (0 -> A, 25 -> Z, 26 -> AA),
\* colLabelToIndex(colIndexToLabel(n)) = n for every n in [0, 1000], colIndexToLabel ends
\* for every non-negative whole index, and distinct indices have distinct labels.
C20_LabelRoundTrip ==
    last.op = "colIndexToLabel" =>
        /\ \A i \in 1..Len(last.label) : \E d \in 1..26 : Letters[d] = last.label[i]
        /\ N(Bijective(last.label)) = last.args[1] + Unit
        /\ last.back = last.args[1]
        /\ last.args[1] = N(0) => last.label = <<"A">>
        /\ last.args[1] = N(25) => last.label = <<"Z">>
        /\ last.args[1] = N(26) => last.label = <<"A", "A">>
        /\ \A m \in 0..MaxIndex : N(m) # last.args[1] => colIndexToLabel(N(m)) # last.label

\* the label of the first index of two letters, read back
C20_Witness ==
    /\ last.op = "colIndexToLabel"
    /\ last.args = <<N(26)>>
    /\ last.label = <<"A", "A">>
    /\ last.back = N(26)

\* ----- the merge list, the aliases and the layers of an import -----
\* the step stores a model that a load has normalised
Loads ==
    \/ Op = "setModel" /\ ~NormalizeThrows(Arg(1))
    \/ Op = "fromJSON" /\ Arg(1).kind = "model" /\ ~NormalizeThrows(Arg(1).m)
    \/ Imports

\* a range of a grid of rows x cols: corners inside, start <= end, more than one cell
Proper(rng, rows, cols) ==
    /\ rng.start.r >= 0 /\ rng.start.r < rows /\ rng.end.r >= 0 /\ rng.end.r < rows
    /\ rng.start.c >= 0 /\ rng.start.c < cols /\ rng.end.c >= 0 /\ rng.end.c < cols
    /\ rng.start.r <= rng.end.r /\ rng.start.c <= rng.end.c
    /\ ~(rng.start.r = rng.end.r /\ rng.start.c = rng.end.c)

\* C21: #sanitizeMerges, applied by a load to any list of raw ranges and any rows, cols,
\* returns only ranges whose corners lie in [0, rows) x [0, cols), with start <= end in
\* both components and not 1 x 1, malformed entries being skipped; "A1:B1" on a 2 x 2
\* grid becomes start (0, 0), end (0, 1), with rowSpan 1, colSpan 2, covering (0, 1)
\* without marking it top-left.
C21_NormalizedMerges ==
    [][Loads =>
        /\ \A i \in 1..Len(model'.mergedCells) :
                Proper(model'.mergedCells[i], model'.rows, model'.cols)
        /\ LET out == sanitizeMerges(Arr(<< [kind |-> "a1", parts |-> <<"A1", "B1">>] >>), N(2), N(2))
               maps == buildMergeMaps(out)
           IN /\ out = << [start |-> [r |-> 0, c |-> 0], end |-> [r |-> 0, c |-> N(1)]] >>
              /\ DOMAIN maps.topLeftMap = { posKey(0, 0) }
              /\ maps.topLeftMap[posKey(0, 0)] = [rowSpan |-> N(1), colSpan |-> N(2)]
              /\ maps.coveredSet = { posKey(0, N(1)) }]_vars

\* the value the first alias of `aliases` that the record carries has, Undefined if none
FirstAlias(style, aliases) ==
    LET carried == { i \in 1..Len(aliases) : style # Null /\ Has(style, aliases[i]) }
    IN IF carried = {} THEN Undefined
       ELSE Get(style, aliases[CHOOSE i \in carried : \A j \in carried : i <= j])

\* the canonical value a record's first alias of every concept gives
FirstMatch(style) ==
    LET text(v) == IF v = Undefined THEN NullValue ELSE SString(v)
        va(v) == IF v = Undefined THEN NullValue
                 ELSE IF Lower(SString(v)) = "center" THEN "middle" ELSE Lower(SString(v))
        ws(v) == IF v = SBool(TRUE) THEN "normal" ELSE IF v = SBool(FALSE) THEN "nowrap" ELSE NullValue
    IN [ textAlign |-> text(FirstAlias(style, <<"textAlign", "hAlign">>)),
         verticalAlign |-> va(FirstAlias(style, <<"verticalAlign", "vAlign">>)),
         whiteSpace |-> ws(FirstAlias(style, <<"wrap", "wordWrap", "wrapText">>)),
         color |-> text(FirstAlias(style, <<"color", "fontColor", "foreColor">>)),
         background |-> text(FirstAlias(style, <<"background", "bgColor", "backColor",
                                                  "backgroundColor", "fillColor">>)) ]

\* the style records an imported sheet carries: the default, and each cell's nested and inline
Records(json, sheet) ==
    { IF sheet.defaultCellStyle # Null THEN sheet.defaultCellStyle ELSE json.defaultCellStyle }
    \cup UNION { UNION { { CellList(RowList(sheet)[i])[j].style, CellList(RowList(sheet)[i])[j].inline } :
                            j \in 1..Len(CellList(RowList(sheet)[i])) } : i \in 1..Len(RowList(sheet)) }

\* C22: on import, when one style record carries more than one alias of a concept
\* (textAlign and hAlign; verticalAlign and vAlign; wrap, wordWrap and wrapText; color,
\* fontColor and foreColor; the background aliases), the first alias in the listed
\* order determines the canonical value.
C22_FirstAliasWins ==
    [][Imports =>
        \A style \in Records(Arg(1).json, SheetOf(Arg(1).json)) \ { Null } :
            \A p \in { "textAlign", "verticalAlign", "whiteSpace", "color", "background" } :
                CssGet(mapStyle(style), p) = FirstMatch(style)[p]]_vars

\* a stored style has, for every canonical property, the value of the last layer naming it
SameLayers(style, layers) == \A p \in Vocabulary : CssGet(style, p) = Layered(layers, p)

\* the styles stored for the visited cells are the layers default, nested, inline
LayersStored(visited, dflt, stored) ==
    \A k \in 1..Len(visited) :
        (\A j \in (k + 1)..Len(visited) : visited[j].r # visited[k].r \/ visited[j].c # visited[k].c)
        => SameLayers(MapGet(stored, cellKey(visited[k].r, visited[k].c)),
                      << dflt, mapStyle(visited[k].cell.style), mapStyle(visited[k].cell.inline) >>)

\* C23: on import, the style stored for a listed cell is the default style, overridden by
\* the cell's nested style record, overridden by the cell's inline style keys: for each
\* canonical property an inline key beats a nested key, and any cell-specific key beats
\* the default.
C23_ImportLayers ==
    [][Imports =>
        LayersStored(Visited(RowList(SheetOf(Arg(1).json)), 1),
                     mapStyle(IF SheetOf(Arg(1).json).defaultCellStyle # Null
                              THEN SheetOf(Arg(1).json).defaultCellStyle
                              ELSE Arg(1).json.defaultCellStyle),
                     model'.cellStyles)]_vars

\* the import of the sheet whose first cell names color in its inline keys (green), in its
\* nested record (red) and in the default style (black), beside a cell without style
C23_Witness ==
    /\ last.op = "fromJSON"
    /\ last.args[1].kind = "sheets"
    /\ ~last.threw
    /\ defaultCellStyle # Null
    /\ CssGet(defaultCellStyle, "color") = "black"
    /\ CssGet(MapGet(model.cellStyles, cellKey(0, 0)), "color") = "green"
    /\ CssGet(MapGet(model.cellStyles, cellKey(0, 0)), "fontFamily") = "Mono"
    /\ CssGet(MapGet(model.cellStyles, cellKey(0, 0)), "fontStyle") = "italic"
    /\ CssGet(MapGet(model.cellStyles, cellKey(0, N(1))), "color") = "black"

\* what a fromJSON call that reads its argument to the end leaves: the imported model,
\* default style and selection; an internal model carries no default style and no selection
Imported(obj, sel) ==
    IF obj.kind = "model"
    THEN { [model |-> normalizeModel(obj.m), defaultCellStyle |-> Null, selection |-> s] : s \in { sel, Null } }
    ELSE { Import(obj.json, SheetOf(obj.json)) }

\* C24: import is atomic: every fromJSON call either replaces the whole table state
\* (model, default style, selection) with the imported one or, when it fails or finds
\* nothing to import, leaves model, default style and selection exactly as they were; a
\* parse failure of the outer document in the file-import path leaves the prior model
\* untouched.
C24_AtomicImport ==
    [][/\ Op = "fromJSON" =>
            IF last'.threw \/ (Arg(1).kind = "sheets" /\ SheetOf(Arg(1).json) = Null)
            THEN UNCHANGED <<model, defaultCellStyle, selection>>
            ELSE [model |-> model', defaultCellStyle |-> defaultCellStyle', selection |-> selection']
                    \in Imported(Arg(1), selection)
       /\ (Op = "importFile" /\ Arg(1).kind = "text") => UNCHANGED model]_vars

\* ----- what every state keeps -----
\* the key is the key of a cell of the grid of rows x cols
KeyInGrid(key, rows, cols) ==
    /\ parseCellKey(key) # Null
    /\ parseCellKey(key).r >= 0 /\ parseCellKey(key).r < rows
    /\ parseCellKey(key).c >= 0 /\ parseCellKey(key).c < cols

\* C25: after any load of a model (fromJSON with a spreadsheet payload or an internal
\* model, setModel) followed by any sequence of edits, every key of cellStyles refers to a
\* coordinate inside [0, rows) x [0, cols): out-of-range keys (a row or column number 0 in
\* the key among them) are dropped on load, and no removeRow / removeColumn or toolbar
\* style action leaves or creates an out-of-range key.
C25_CellStyleKeysInGrid ==
    \A key \in DOMAIN model.cellStyles : KeyInGrid(key, model.rows, model.cols)

\* C26: in every reachable state (after any load via fromJSON or setModel, with any rows
\* and cols, 0 and 1 among them, followed by any sequence of addRow, addColumn, removeRow,
\* removeColumn), every stored merge range lies inside [0, rows) x [0, cols), has
\* start <= end in both components, and spans more than one cell.
C26_MergesInGrid ==
    \A i \in 1..Len(model.mergedCells) : Proper(model.mergedCells[i], model.rows, model.cols)

\* C27: in every reachable state the selection is none or refers to an existing row and
\* column of the grid, also after removeRow / removeColumn removed or shifted the
\* selected row or column; so the activeCell address toSpreadsheetJSON writes for it lies
\* inside the grid.
C27_SelectionInGrid ==
    selection # Null =>
        /\ InGrid(selection, model)
        /\ parseA1(ActiveCell(selection)) # Null
        /\ parseA1(ActiveCell(selection)).r >= 0 /\ parseA1(ActiveCell(selection)).r < model.rows
        /\ parseA1(ActiveCell(selection)).c >= 0 /\ parseA1(ActiveCell(selection)).c < model.cols

\* the step loads an internal model, through setModel or through fromJSON
LoadsModel ==
    \/ Op = "setModel" /\ ~NormalizeThrows(Arg(1))
    \/ Op = "fromJSON" /\ Arg(1).kind = "model" /\ ~NormalizeThrows(Arg(1).m)

\* C28: the default style of a spreadsheet import does not leak into a later load: after
\* loading an internal model (fromJSON with a non-spreadsheet object, or setModel) the
\* default style is empty, so getEffectiveCellStyle of a cell with no cell, row or column
\* style returns null.
C28_DefaultDoesNotLeak ==
    [][LoadsModel =>
        /\ defaultCellStyle' = Null
        /\ \A r \in Below(model'.rows), c \in Below(model'.cols) :
              (/\ MapGet(model'.cellStyles, cellKey(N(r), N(c))) = Null
               /\ At(model'.rowStyles, r) = Null
               /\ At(model'.columnStyles, c) = Null)
              => getEffectiveCellStyle(model', defaultCellStyle', N(r), N(c)) = Null]_vars

\* ----- the toolbar on its own -----
\* a new table on which a column head, a row head or a cell has been clicked
ToolbarInit ==
    \E rows \in 1..MaxSide, cols \in 1..MaxSide :
        \E sel \in { [type |-> "col", c |-> N(c)] : c \in Below(N(cols)) }
                   \cup { [type |-> "row", r |-> N(r)] : r \in Below(N(rows)) }
                   \cup { [type |-> "cell", r |-> N(r), c |-> N(c)] : r \in Below(N(rows)), c \in Below(N(cols)) } :
            /\ model = createEmptyModel(N(rows), N(cols))
            /\ defaultCellStyle = Null
            /\ selection = sel
            /\ rendered = render(createEmptyModel(N(rows), N(cols)))
            /\ last = Call("select", <<sel>>, FALSE)
            /\ nops = 0

\* clicks and toolbar actions only
ToolbarSpec == ToolbarInit /\ [][Select \/ Toolbar]_vars

\* the cells of the selected row or column
Selected(sel, m) ==
    { rc \in Below(m.rows) \X Below(m.cols) :
        \/ sel.type = "row" /\ N(rc[1]) = sel.r
        \/ sel.type = "col" /\ N(rc[2]) = sel.c }

\* the properties a patch sets on the cells of a selected row or column
Applied(sel, patch) ==
    { i \in 1..Len(patch) : /\ patch[i][2] \notin { NullValue, "" }
                            /\ ~(sel.type = "row" /\ patch[i][1] = "width") }

\* C29: Clear on the current selection removes the styles applied to it: after a style
\* is applied through the toolbar to a selected row or column of a new table and Clear
\* is then applied to the same selection, no cell of that row or column has an effective
\* style property coming from that application, neither from the row / column layer nor
\* from the per-cell overrides written when it was applied.
C29_ClearRemovesApplied ==
    [][(/\ last.op = "toolbar" /\ ~last.args[1]
        /\ Op = "toolbar" /\ Arg(1)
        /\ selection # Null /\ selection.type \in { "row", "col" })
       => \A rc \in Selected(selection, model') : \A i \in Applied(selection, last.args[2]) :
            CssGet(getEffectiveCellStyle(model', defaultCellStyle', N(rc[1]), N(rc[2])),
                   last.args[2][i][1]) = NullValue]_vars

\* ----- a row or column style set after an import -----
\* the value the exported sheet shows for interchange key q of cell (r, c): that of the
\* cell's exported style, else that of the exported default style
Shown(m, dflt, r, c, q) ==
    IF SGet(ExportStyle(m, dflt, Trunc(r), Trunc(c)), q) # Undefined
    THEN SGet(ExportStyle(m, dflt, Trunc(r), Trunc(c)), q)
    ELSE SGet(mapToSpreadsheetStyle(dflt), q)

\* the export agrees with the effective value v of property p of cell (r, c)
ExportAgrees(m, dflt, r, c, p, v) ==
    \A e \in { Entries(mapToSpreadsheetStyle(Obj(<< <<p, v>> >>)))[i] :
                 i \in 1..Len(Entries(mapToSpreadsheetStyle(Obj(<< <<p, v>> >>)))) } :
        Shown(m, dflt, r, c, e[1]) = e[2]

\* the imported cells of row / column `index` without a value of their own for a
\* property the style sets have the style's value as their effective and exported value
DefaultBelow(visited, op, index, set, m, dflt) ==
    \A k \in 1..Len(visited), i \in 1..Len(set) :
        (/\ IsInteger(visited[k].r) /\ IsInteger(visited[k].c)
         /\ set[i][2] \notin { NullValue, "" }
         /\ op = "setRowStyle" => visited[k].r = index
         /\ op = "setColumnStyle" =>
                /\ visited[k].c = index
                /\ CssGet(At(m.rowStyles, Trunc(visited[k].r)), set[i][1]) \in { NullValue, "" }
         /\ \A j \in 1..Len(visited) :
                (visited[j].r = visited[k].r /\ visited[j].c = visited[k].c)
                => /\ CssGet(mapStyle(visited[j].cell.style), set[i][1]) = NullValue
                   /\ CssGet(mapStyle(visited[j].cell.inline), set[i][1]) = NullValue)
        => /\ CssGet(getEffectiveCellStyle(m, dflt, visited[k].r, visited[k].c), set[i][1]) = set[i][2]
           /\ ExportAgrees(m, dflt, visited[k].r, visited[k].c, set[i][1],
                           CssGet(getEffectiveCellStyle(m, dflt, visited[k].r, visited[k].c), set[i][1]))

\* C30: the default style stays the lowest layer after an import: for every imported
\* cell that had no cell-specific value for a property p, a later setRowStyle or
\* setColumnStyle that sets p changes the cell's effective value of p to the row / column
\* value, and the style toSpreadsheetJSON exports for the cell agrees with
\* getEffectiveCellStyle on p.
C30_DefaultStaysLowest ==
    [][(/\ last.op = "fromJSON" /\ last.args[1].kind = "sheets" /\ ~last.threw
        /\ SheetOf(last.args[1].json) # Null
        /\ Op \in { "setRowStyle", "setColumnStyle" }
        /\ Arg(1) >= 0
        /\ sanitizeStyle(Arg(2)) # Null)
       => DefaultBelow(Visited(RowList(SheetOf(last.args[1].json)), 1), Op, Arg(1),
                       Entries(sanitizeStyle(Arg(2))), model', defaultCellStyle')]_vars

====
